---- MODULE Spec2Model ----
(***************************************************************************)
(* CCF-Lens / LabelPilot: the processing tracker (SiteManager), the badge  *)
(* mounting logic (usePaperProcessing) and the DBLP lookup queue           *)
(* (useDblpQueue), modelled as a state machine.                            *)
(*                                                                         *)
(* Handlers run to completion (single-threaded event loop); every action   *)
(* below is one handler, one timer callback or one task completion.        *)
(* Each operation is written as an operator from a record of the mutable   *)
(* state to the record after the operation; an action applies one          *)
(* operator to the current state.                                          *)
(***************************************************************************)
EXTENDS Integers, Sequences, FiniteSets, TLC

VARIABLES
    currentAdapter,     \* SiteManager.currentAdapter: "none" or a siteId
    pageSize,           \* the scraper reports papers 1..pageSize (document order)
    showRanks,          \* settingsStore.settings.showRanks
    processedPapers,    \* SiteManager.processedPapers: id -> ProcessedPaperInfo
    processedElements,  \* SiteManager.processedElements: in-memory id set
    domMarker,          \* ids whose element carries the processed marker attribute
    mountedBadges,      \* usePaperProcessing.mountedBadges: id -> badgeState
    dblpQueue,          \* useDblpQueue.dblpQueue: pending tasks, FIFO
    running,            \* tasks started (task() called) and not yet settled
    dblpActiveCount,    \* useDblpQueue.dblpActiveCount
    dblpInFlight,       \* useDblpQueue.dblpInFlight
    processingEpoch,    \* useDblpQueue.processingEpoch
    drainTimers,        \* pending setTimeout(drainDblpQueue, 0) callbacks
    pendingUiUpdate,    \* useStatsManagement.pendingUiUpdate !== null
    appMounted,         \* App.vue is mounted (between onMounted and onUnmounted)
    nextTask,           \* history: number given to the next enqueued task
    lastStarted,        \* history: largest task number started so far
    cleared,            \* history: task numbers removed from the queue by clearQueue
    lastCall,           \* history: the last tracker call and what it returned
    scanned,            \* history: processCurrentPage ran since the page or the tracker last changed
    synced,             \* history: ids that isProcessed(id, element) found marked since the last reset
    memoryCache,        \* CacheManager.memoryCache: key -> CacheEntry
    storage,            \* the persistent store (GM_getValue / GM_setValue): key -> CacheEntry
    now,                \* Date.now(), in clock ticks
    cacheCall,          \* history: the last cache call and what it returned
    cacheHist,          \* history: per key, the last set or delete of this cache instance
    malformed,          \* ids whose scraped record makes the loop body of processCurrentPage throw
    catalogData,        \* catalogData.entries: the catalog file, in load order
    entries,            \* CCFCatalog.entries: abbreviation key -> entry (index in catalogData, 0 absent)
    lookupIndex,        \* CCFCatalog.lookupIndex: key -> entry (index in catalogData, 0 absent)
    findCall,           \* history: the last catalog call and what it returned
    inflight,           \* titles whose external title-search call is outstanding
    svcCall,            \* history: the last queryByTitle call and what it returned
    svcHist,            \* history: per title, how the last external call ended
    batch,              \* the queryBatch call in progress or last returned
    venue,              \* the venue string handed to the matcher (a sequence of tokens)
    matcherCall,        \* history: the last call of the matcher and what it returned
    badgeElements,      \* id -> badge containers of the entry that are in the document
    shownStats          \* useStatsManagement.stats: the statistics the panel displays

vars == <<currentAdapter, pageSize, showRanks, processedPapers, processedElements,
          domMarker, mountedBadges, dblpQueue, running, dblpActiveCount,
          dblpInFlight, processingEpoch, drainTimers, pendingUiUpdate, appMounted,
          nextTask, lastStarted, cleared, lastCall, scanned, synced,
          memoryCache, storage, now, cacheCall, cacheHist,
          malformed, catalogData, entries, lookupIndex, findCall,
          inflight, svcCall, svcHist, batch, venue, matcherCall,
          badgeElements, shownStats>>

(***************************************************************************)
(* Bounds of the model.                                                    *)
(***************************************************************************)
NumPapers == 4      \* papers the page of the application can hold
MaxEpoch == 1       \* queue clears (cleanups) in one run of the application
NumTracked == 3     \* papers the page holds when the tracker is driven alone
MaxNow == 2         \* clock ticks the cache is observed for
TtlTicks == 1       \* the default TTL of a cache entry (DEFAULT_TTL), in clock ticks

Ids == 1..NumPapers
TrackedIds == 1..NumTracked

(***************************************************************************)
(* Program constants.                                                      *)
(***************************************************************************)
DBLP_LOOKUP_CONCURRENCY == 2

NullVenue == "null"
NullYear == "null"
NoRank == "null"

(***************************************************************************)
(* The scraper collaborator: what getPapers() reports for paper i.  Paper  *)
(* 1 carries a venue the catalog knows; the others carry no venue; every   *)
(* fifth paper lacks the arXiv publication signal.                         *)
(***************************************************************************)
ScrapedVenue(i) == IF i = 1 THEN "CVPR" ELSE NullVenue
ScrapedVenueSource(i) == IF ScrapedVenue(i) # NullVenue THEN "page" ELSE "unknown"
ScrapedYear(i) == NullYear
ScrapedTitle(i) == "title"
hasArxivPublicationSignal(i) == i % 5 # 0

(***************************************************************************)
(* The venue matcher as the tracker sees it: a venue string is matched to  *)
(* a catalog entry with a rank, or not matched.                            *)
(***************************************************************************)
CatalogRank(v) == IF v = "CVPR" THEN "A" ELSE NoRank
match(v) ==
    IF CatalogRank(v) # NoRank
    THEN [matched |-> TRUE, rank |-> CatalogRank(v), confidence |-> "exact", originalVenue |-> v]
    ELSE [matched |-> FALSE, rank |-> NoRank, confidence |-> "none", originalVenue |-> v]

\* site-manager.ts processCurrentPage, the matchResult of a scraped paper
classify(i) ==
    IF ScrapedVenue(i) # NullVenue
    THEN match(ScrapedVenue(i))
    ELSE [matched |-> FALSE, rank |-> NoRank, confidence |-> "none", originalVenue |-> ""]

\* site-manager.ts processCurrentPage, the ProcessedPaperInfo of a scraped paper
newProcessedPaper(i) ==
    [venue |-> ScrapedVenue(i), venueSource |-> ScrapedVenueSource(i),
     year |-> ScrapedYear(i), matchResult |-> classify(i), processed |-> FALSE]

(***************************************************************************)
(* The mutable state as one record.                                        *)
(***************************************************************************)
St ==
    [currentAdapter |-> currentAdapter, pageSize |-> pageSize, showRanks |-> showRanks,
     processedPapers |-> processedPapers, processedElements |-> processedElements,
     domMarker |-> domMarker, mountedBadges |-> mountedBadges, dblpQueue |-> dblpQueue,
     running |-> running, dblpActiveCount |-> dblpActiveCount,
     dblpInFlight |-> dblpInFlight, processingEpoch |-> processingEpoch,
     drainTimers |-> drainTimers, pendingUiUpdate |-> pendingUiUpdate,
     appMounted |-> appMounted, nextTask |-> nextTask, lastStarted |-> lastStarted,
     cleared |-> cleared, lastCall |-> lastCall, scanned |-> scanned, synced |-> synced,
     memoryCache |-> memoryCache, storage |-> storage, now |-> now,
     cacheCall |-> cacheCall, cacheHist |-> cacheHist,
     malformed |-> malformed, catalogData |-> catalogData, entries |-> entries,
     lookupIndex |-> lookupIndex, findCall |-> findCall, inflight |-> inflight,
     svcCall |-> svcCall, svcHist |-> svcHist, batch |-> batch,
     venue |-> venue, matcherCall |-> matcherCall,
     badgeElements |-> badgeElements, shownStats |-> shownStats]

Apply(s) ==
    /\ currentAdapter' = s.currentAdapter
    /\ pageSize' = s.pageSize
    /\ showRanks' = s.showRanks
    /\ processedPapers' = s.processedPapers
    /\ processedElements' = s.processedElements
    /\ domMarker' = s.domMarker
    /\ mountedBadges' = s.mountedBadges
    /\ dblpQueue' = s.dblpQueue
    /\ running' = s.running
    /\ dblpActiveCount' = s.dblpActiveCount
    /\ dblpInFlight' = s.dblpInFlight
    /\ processingEpoch' = s.processingEpoch
    /\ drainTimers' = s.drainTimers
    /\ pendingUiUpdate' = s.pendingUiUpdate
    /\ appMounted' = s.appMounted
    /\ nextTask' = s.nextTask
    /\ lastStarted' = s.lastStarted
    /\ cleared' = s.cleared
    /\ lastCall' = s.lastCall
    /\ scanned' = s.scanned
    /\ synced' = s.synced
    /\ memoryCache' = s.memoryCache
    /\ storage' = s.storage
    /\ now' = s.now
    /\ cacheCall' = s.cacheCall
    /\ cacheHist' = s.cacheHist
    /\ malformed' = s.malformed
    /\ catalogData' = s.catalogData
    /\ entries' = s.entries
    /\ lookupIndex' = s.lookupIndex
    /\ findCall' = s.findCall
    /\ inflight' = s.inflight
    /\ svcCall' = s.svcCall
    /\ svcHist' = s.svcHist
    /\ batch' = s.batch
    /\ venue' = s.venue
    /\ matcherCall' = s.matcherCall
    /\ badgeElements' = s.badgeElements
    /\ shownStats' = s.shownStats

Max(a, b) == IF a >= b THEN a ELSE b
\* The last call on the tracker's interface: the operation, its arguments
\* and its return value.  For reset, `marked` is the set of entries of the
\* result set that were marked processed when reset was called; for a
\* processCurrentPage that directly follows a reset(b), afterReset is b and
\* `marked` is that of the reset.
NoBadgeElements == [i \in Ids |-> 0]
NoStats == [total |-> 0, byRank |-> [A |-> 0, B |-> 0, C |-> 0, unknown |-> 0]]

NoCall ==
    [op |-> "none", id |-> 0, withElement |-> FALSE, ret |-> FALSE,
     marked |-> {}, afterReset |-> "none"]
Call(op, id, withElement, ret) ==
    [op |-> op, id |-> id, withElement |-> withElement, ret |-> ret,
     marked |-> {}, afterReset |-> "none"]

(***************************************************************************)
(* useDblpQueue                                                            *)
(***************************************************************************)
\* a drain that takes the task submitted last
startLast(s) ==
    LET n == Len(s.dblpQueue)
        task == s.dblpQueue[n]
    IN [s EXCEPT !.dblpQueue = SubSeq(@, 1, n - 1),
                 !.dblpActiveCount = @ + 1,
                 !.running = @ \cup {[tid |-> task.tid, id |-> task.id,
                                       epochAtEnqueue |-> task.epochAtEnqueue,
                                       epochAtStart |-> s.processingEpoch]},
                 !.lastStarted = Max(@, task.tid)]

\* One iteration of the while loop of drainDblpQueue: shift the head of the
\* queue, capture the epoch, count the task active and call it.  The task
\* runs up to its first await (the lookup) and stays in `running` until the
\* lookup returns.
startHead(s) ==
    LET task == Head(s.dblpQueue)
    IN [s EXCEPT !.dblpQueue = Tail(@),
                 !.dblpActiveCount = @ + 1,
                 !.running = @ \cup {[tid |-> task.tid, id |-> task.id,
                                       epochAtEnqueue |-> task.epochAtEnqueue,
                                       epochAtStart |-> s.processingEpoch]},
                 !.lastStarted = Max(@, task.tid)]

\* a loop condition that forgets the concurrency cap
canDrainNoCap(s) == Len(s.dblpQueue) > 0

\* the loop condition of drainDblpQueue
canDrain(s) ==
    s.dblpActiveCount < DBLP_LOOKUP_CONCURRENCY /\ Len(s.dblpQueue) > 0

RECURSIVE drainDblpQueue(_)
drainDblpQueue(s) ==
    IF canDrain(s) THEN drainDblpQueue(startHead(s)) ELSE s

enqueueDblpLookup(s, task) ==
    drainDblpQueue([s EXCEPT !.dblpQueue = Append(@, task)])

\* a clearQueue that bumps the epoch and leaves the pending tasks queued
clearQueueKeepsQueue(s) ==
    [s EXCEPT !.processingEpoch = @ + 1,
              !.dblpInFlight = {},
              !.cleared = @ \cup {s.dblpQueue[k].tid : k \in 1..Len(s.dblpQueue)}]

\* a clearQueue that also forgets the tasks that are running
clearQueueResetsCount(s) ==
    [s EXCEPT !.processingEpoch = @ + 1,
              !.dblpQueue = <<>>,
              !.dblpInFlight = {},
              !.dblpActiveCount = 0,
              !.cleared = @ \cup {s.dblpQueue[k].tid : k \in 1..Len(s.dblpQueue)}]

clearQueue(s) ==
    [s EXCEPT !.processingEpoch = @ + 1,
              !.dblpQueue = <<>>,
              !.dblpInFlight = {},
              !.cleared = @ \cup {s.dblpQueue[k].tid : k \in 1..Len(s.dblpQueue)}]

isInFlight(s, id) == id \in s.dblpInFlight
addToInFlight(s, id) == [s EXCEPT !.dblpInFlight = @ \cup {id}]
removeFromInFlight(s, id) == [s EXCEPT !.dblpInFlight = @ \ {id}]
getCurrentEpoch(s) == s.processingEpoch

(***************************************************************************)
(* SiteManager.getStatistics                                               *)
(***************************************************************************)
\* a count that leaves out the entries without a match
countPaperMatchedOnly(stats, paper) ==
    IF paper.matchResult.matched /\ paper.matchResult.rank # NoRank
    THEN [stats EXCEPT !.byRank[paper.matchResult.rank] = @ + 1]
    ELSE stats

\* the body of the loop of getStatistics; matchResult.rank is the rank of
\* matchResult.entry, NoRank when there is no entry
countPaper(stats, paper) ==
    IF paper.matchResult.matched /\ paper.matchResult.rank # NoRank
    THEN [stats EXCEPT !.byRank[paper.matchResult.rank] = @ + 1]
    ELSE [stats EXCEPT !.byRank.unknown = @ + 1]

RECURSIVE countFrom(_, _, _)
countFrom(s, stats, i) ==
    IF i > NumPapers THEN stats
    ELSE IF i \in DOMAIN s.processedPapers
         THEN countFrom(s, countPaper(stats, s.processedPapers[i]), i + 1)
         ELSE countFrom(s, stats, i + 1)

getStatistics(s) ==
    countFrom(s, [NoStats EXCEPT !.total = Cardinality(DOMAIN s.processedPapers)], 1)

(***************************************************************************)
(* useStatsManagement: the coalesced UI update                             *)
(***************************************************************************)
scheduleUiUpdate(s) ==
    IF s.pendingUiUpdate THEN s ELSE [s EXCEPT !.pendingUiUpdate = TRUE]

clearPendingUpdate(s) == [s EXCEPT !.pendingUiUpdate = FALSE]

updateStats(s) == [s EXCEPT !.shownStats = getStatistics(s)]

\* a timer callback that leaves the displayed statistics as they are
uiUpdateKeepsStats(s) == [s EXCEPT !.pendingUiUpdate = FALSE]

\* the timer callback of scheduleUiUpdate
uiUpdate(s) == updateStats([s EXCEPT !.pendingUiUpdate = FALSE])

(***************************************************************************)
(* SiteManager of ccf-lens (the refactored variant, with the marker on     *)
(* the element as second idempotency channel).                             *)
(***************************************************************************)
hasProcessedMarker(s, id) == id \in s.domMarker

\* memory set plus marker attribute
markElementAsProcessed(s, id) ==
    [s EXCEPT !.processedElements = @ \cup {id}, !.domMarker = @ \cup {id}]

\* a marker check that leaves the memory set alone
syncFromMarkerSkipped(s, id) == s

\* the marker is checked first and, when found, synchronised into memory
syncFromMarker(s, id) ==
    IF hasProcessedMarker(s, id)
    THEN [s EXCEPT !.processedElements = @ \cup {id}]
    ELSE s

\* a check that consults the memory set only
hasElementBeenProcessedMemoryOnly(s, id) == id \in s.processedElements

hasElementBeenProcessed(s, id) ==
    hasProcessedMarker(s, id) \/ id \in s.processedElements

\* a scan that sets the marker on the element of every entry it adds
lensProcessOneMarks(s, i) ==
    IF hasElementBeenProcessed(s, i)
    THEN syncFromMarker(s, i)
    ELSE [s EXCEPT !.processedPapers = (i :> newProcessedPaper(i)) @@ @,
                   !.domMarker = @ \cup {i}]

\* the body of the loop of processCurrentPage for one scraped paper
lensProcessOne(s, i) ==
    IF hasElementBeenProcessed(s, i)
    THEN syncFromMarker(s, i)
    ELSE [s EXCEPT !.processedPapers = (i :> newProcessedPaper(i)) @@ @]

RECURSIVE lensProcessFrom(_, _)
lensProcessFrom(s, i) ==
    IF i > s.pageSize THEN s ELSE lensProcessFrom(lensProcessOne(s, i), i + 1)

lensProcessCurrentPage(s) ==
    IF s.currentAdapter = "none" THEN s ELSE lensProcessFrom(s, 1)

\* a markAsProcessed that leaves the element without the marker
lensMarkAsProcessedMemoryOnly(s, id) ==
    IF id \in DOMAIN s.processedPapers
    THEN [s EXCEPT !.processedPapers[id].processed = TRUE,
                   !.processedElements = @ \cup {id}]
    ELSE s

lensMarkAsProcessed(s, id) ==
    IF id \in DOMAIN s.processedPapers
    THEN markElementAsProcessed([s EXCEPT !.processedPapers[id].processed = TRUE], id)
    ELSE s

\* a reset that never touches the markers
lensResetKeepsMarkers(s, clearDomMarkers) ==
    [s EXCEPT !.processedPapers = <<>>, !.processedElements = {}]

\* a reset that strips the markers of the tracked entries whatever its argument
lensResetAlwaysStrips(s, clearDomMarkers) ==
    [s EXCEPT !.processedPapers = <<>>,
              !.processedElements = {},
              !.domMarker = @ \ DOMAIN s.processedPapers]

\* a reset that empties the result set and forgets to empty the memory set
lensResetKeepsMemory(s, clearDomMarkers) ==
    [s EXCEPT !.processedPapers = <<>>,
              !.domMarker = IF clearDomMarkers THEN @ \ DOMAIN s.processedPapers ELSE @]

\* a reset(true) that strips every marker of the page
lensResetStripsPage(s, clearDomMarkers) ==
    [s EXCEPT !.processedPapers = <<>>,
              !.processedElements = {},
              !.domMarker = IF clearDomMarkers THEN {} ELSE @]

\* reset(clearDomMarkers): the result set and the memory set are emptied;
\* with clearDomMarkers the marker is stripped from the element of every
\* entry of the result set
lensReset(s, clearDomMarkers) ==
    [s EXCEPT !.processedPapers = <<>>,
              !.processedElements = {},
              !.domMarker = IF clearDomMarkers THEN @ \ DOMAIN s.processedPapers ELSE @]

(***************************************************************************)
(* usePaperProcessing                                                      *)
(***************************************************************************)
shouldLookupDblp(s, i) ==
    /\ s.currentAdapter = "arxiv"
    /\ s.processedPapers[i].venue = NullVenue
    /\ ScrapedTitle(i) # ""
    /\ hasArxivPublicationSignal(i)

\* the four early returns of mountBadge on the display settings
rankShown(s, rank) ==
    IF rank = NoRank THEN s.showRanks["unknown"] ELSE s.showRanks[rank]

newBadgeState(paper) ==
    [rank |-> paper.matchResult.rank,
     venue |-> IF paper.matchResult.matched THEN paper.matchResult.originalVenue
               ELSE paper.venue,
     year |-> paper.year,
     venueSource |-> paper.venueSource,
     confidence |-> paper.matchResult.confidence,
     loading |-> FALSE,
     error |-> "none"]

\* the tail of mountBadge: the DBLP fallback
enqueueFallback(s, i) ==
    IF shouldLookupDblp(s, i) /\ ~isInFlight(s, i)
    THEN LET s1 == addToInFlight(s, i)
             s2 == [s1 EXCEPT !.mountedBadges[i].loading = TRUE,
                              !.mountedBadges[i].error = "none",
                              !.nextTask = @ + 1]
             task == [tid |-> s.nextTask, id |-> i, epochAtEnqueue |-> getCurrentEpoch(s)]
         IN enqueueDblpLookup(s2, task)
    ELSE s

\* a mountBadge that does not look at the display settings
mountBadgeIgnoresSettings(s, i) ==
    LET paper == s.processedPapers[i]
    IN IF i \in DOMAIN s.mountedBadges THEN s
       ELSE LET s1 == [s EXCEPT !.mountedBadges = (i :> newBadgeState(paper)) @@ @,
                                !.badgeElements[i] = @ + 1]
                s2 == lensMarkAsProcessed(s1, i)
            IN enqueueFallback(s2, i)

mountBadge(s, i) ==
    LET paper == s.processedPapers[i]
    IN IF i \in DOMAIN s.mountedBadges THEN s
       ELSE IF ~rankShown(s, paper.matchResult.rank) THEN s
       ELSE LET s1 == [s EXCEPT !.mountedBadges = (i :> newBadgeState(paper)) @@ @,
                                !.badgeElements[i] = @ + 1]
                s2 == lensMarkAsProcessed(s1, i)
            IN enqueueFallback(s2, i)

\* the loop of processPapers over the result map, in insertion order
RECURSIVE mountFrom(_, _)
mountFrom(s, i) ==
    IF i > NumPapers THEN s
    ELSE IF i \in DOMAIN s.processedPapers /\ ~s.processedPapers[i].processed
         THEN mountFrom(mountBadge(s, i), i + 1)
         ELSE mountFrom(s, i + 1)

\* a processPapers that starts every scan from an emptied tracker
processPapersFresh(s) == mountFrom(lensProcessCurrentPage(lensReset(s, FALSE)), 1)

processPapers(s) == mountFrom(lensProcessCurrentPage(s), 1)

\* a cleanup that forgets the badges and leaves their containers in the page
cleanupBadgesKeepsElements(s) == [clearQueue(s) EXCEPT !.mountedBadges = <<>>]

\* usePaperProcessing.cleanup: every mounted badge is unmounted and its
\* container removed from the document
cleanupBadges(s) ==
    [clearQueue(s) EXCEPT
        !.mountedBadges = <<>>,
        !.badgeElements = [i \in Ids |->
                              IF i \in DOMAIN s.mountedBadges /\ @[i] > 0
                              THEN @[i] - 1 ELSE @[i]]]

\* App.vue cleanup
cleanup(s) == cleanupBadges(clearPendingUpdate(s))

\* App.vue processPapers: the scan, then updateStats()
appProcessPapers(s) == updateStats(processPapers(s))

(***************************************************************************)
(* The fallback lookup task, from the point where the lookup returns       *)
(* `result` to the end of the .finally() of drainDblpQueue.                *)
(***************************************************************************)
Results ==
    { [kind |-> "found", venue |-> "CVPR", year |-> "2024", timedOut |-> FALSE],
      [kind |-> "found", venue |-> "XYZ", year |-> NullYear, timedOut |-> FALSE],
      [kind |-> "notfound", venue |-> NullVenue, year |-> NullYear, timedOut |-> FALSE],
      [kind |-> "error", venue |-> NullVenue, year |-> NullYear, timedOut |-> FALSE],
      [kind |-> "error", venue |-> NullVenue, year |-> NullYear, timedOut |-> TRUE] }

\* the message of line 119
errorMessage(result) == IF result.timedOut THEN "timeout" ELSE "failed"

\* a task that writes the venue and keeps the old matchResult
taskBodyKeepsMatch(s, t, result) ==
    IF t.epochAtEnqueue # getCurrentEpoch(s) THEN s
    ELSE IF result.kind = "error"
         THEN [s EXCEPT !.mountedBadges[t.id].loading = FALSE,
                        !.mountedBadges[t.id].error = errorMessage(result)]
    ELSE IF result.kind # "found" \/ result.venue = NullVenue
         THEN [s EXCEPT !.mountedBadges[t.id].loading = FALSE]
    ELSE scheduleUiUpdate(
            [s EXCEPT !.processedPapers[t.id].venue = result.venue,
                      !.processedPapers[t.id].venueSource = "dblp",
                      !.mountedBadges[t.id].venue = result.venue,
                      !.mountedBadges[t.id].venueSource = "dblp",
                      !.mountedBadges[t.id].loading = FALSE,
                      !.mountedBadges[t.id].error = "none"])

\* a task that checks result.found before result.error and so writes the
\* empty result of a failed lookup into the entry
taskBodyErrorAsNotFound(s, t, result) ==
    IF t.epochAtEnqueue # getCurrentEpoch(s) THEN s
    ELSE IF result.kind = "error"
         THEN [s EXCEPT !.processedPapers[t.id].venueSource = "unknown",
                        !.processedPapers[t.id].matchResult = match(result.venue),
                        !.mountedBadges[t.id].loading = FALSE,
                        !.mountedBadges[t.id].error = errorMessage(result)]
    ELSE IF result.kind # "found" \/ result.venue = NullVenue
         THEN [s EXCEPT !.mountedBadges[t.id].loading = FALSE]
    ELSE s

\* a task that re-runs the matcher on the empty venue of a not-found result
taskBodyNotFoundRematches(s, t, result) ==
    IF t.epochAtEnqueue # getCurrentEpoch(s) THEN s
    ELSE IF result.kind = "error"
         THEN [s EXCEPT !.mountedBadges[t.id].loading = FALSE,
                        !.mountedBadges[t.id].error = errorMessage(result)]
    ELSE IF result.kind # "found" \/ result.venue = NullVenue
         THEN [s EXCEPT !.processedPapers[t.id].matchResult = match(result.venue),
                        !.mountedBadges[t.id].loading = FALSE]
    ELSE s

\* the try block of the task after the await
taskBody(s, t, result) ==
    IF t.epochAtEnqueue # getCurrentEpoch(s) THEN s
    ELSE IF result.kind = "error"
         THEN [s EXCEPT !.mountedBadges[t.id].loading = FALSE,
                        !.mountedBadges[t.id].error = errorMessage(result)]
    ELSE IF result.kind # "found" \/ result.venue = NullVenue
         THEN [s EXCEPT !.mountedBadges[t.id].loading = FALSE]
    ELSE LET paper == s.processedPapers[t.id]
             year == IF paper.year = NullYear /\ result.year # NullYear
                     THEN result.year ELSE paper.year
             matchResult == match(result.venue)
             s1 == [s EXCEPT !.processedPapers[t.id].venue = result.venue,
                             !.processedPapers[t.id].venueSource = "dblp",
                             !.processedPapers[t.id].year = year,
                             !.processedPapers[t.id].matchResult = matchResult,
                             !.mountedBadges[t.id].rank = matchResult.rank,
                             !.mountedBadges[t.id].venue = result.venue,
                             !.mountedBadges[t.id].year = year,
                             !.mountedBadges[t.id].venueSource = "dblp",
                             !.mountedBadges[t.id].confidence = matchResult.confidence,
                             !.mountedBadges[t.id].loading = FALSE,
                             !.mountedBadges[t.id].error = "none"]
         IN scheduleUiUpdate(s1)

\* the finally block of the task
taskFinally(s, t) == removeFromInFlight(s, t.id)

\* the .finally() callback of drainDblpQueue
drainFinally(s, t) ==
    LET s1 == [s EXCEPT !.dblpActiveCount = @ - 1, !.running = @ \ {t}]
    IN IF t.epochAtStart = s1.processingEpoch /\ Len(s1.dblpQueue) > 0
       THEN [s1 EXCEPT !.drainTimers = @ + 1]
       ELSE s1

completeTask(s, t, result) == drainFinally(taskFinally(taskBody(s, t, result), t), t)

(***************************************************************************)
(* CacheManager: a memory tier over a persistent tier.  Every call of the  *)
(* persistent store (GM_getValue, GM_setValue, GM_deleteValue,             *)
(* GM_listValues) may throw; the operators take the outcome as argument.   *)
(***************************************************************************)
\* the keys a client of the cache uses directly, and all keys of the store
\* (the lookup service keeps its results under keys of its own)
DirectKeys == {"k1"}
CacheKeys == DirectKeys \cup {"dblp:t1", "dblp:t2"}
CacheValues == {"v1", "v2"}
NullValue == "null"
Ttls == {0, TtlTicks}

\* a slot of a tier without entry (Map.get gives undefined, GM_getValue null)
NoEntry == [present |-> FALSE, value |-> NullValue, timestamp |-> 0, ttl |-> 0]
NoTier == [k \in CacheKeys |-> NoEntry]
NoCacheCall == [op |-> "none", key |-> "none", ret |-> NullValue]

\* what the caller did last with a key: "set" (with the entry written and
\* whether the persistent write succeeded), "deleted", or "none"
NoHist ==
    [k \in CacheKeys |->
        [state |-> "none", value |-> NullValue, timestamp |-> 0, ttl |-> 0, persisted |-> FALSE]]

CacheIdle ==
    /\ memoryCache = NoTier
    /\ storage = NoTier
    /\ now = 0
    /\ cacheCall = NoCacheCall
    /\ cacheHist = NoHist

isExpired(s, entry) == s.now - entry.timestamp > entry.ttl

\* a delete that leaves the persistent tier alone
cacheDeleteMemoryOnly(s, key, deleteOk) ==
    [s EXCEPT !.memoryCache[key] = NoEntry]

cacheDelete(s, key, deleteOk) ==
    [s EXCEPT !.memoryCache[key] = NoEntry,
              !.storage[key] = IF deleteOk THEN NoEntry ELSE @]

\* a get that returns null for an expired entry and leaves it in place
cacheGetKeepsExpired(s, key, readOk, deleteOk) ==
    IF s.memoryCache[key].present THEN s
    ELSE IF ~readOk \/ ~s.storage[key].present \/ isExpired(s, s.storage[key]) THEN s
    ELSE [s EXCEPT !.memoryCache[key] = s.storage[key]]

\* get(key): the state it leaves
cacheGet(s, key, readOk, deleteOk) ==
    IF s.memoryCache[key].present
    THEN IF isExpired(s, s.memoryCache[key]) THEN cacheDelete(s, key, deleteOk) ELSE s
    ELSE IF ~readOk THEN s
    ELSE IF ~s.storage[key].present THEN s
    ELSE IF isExpired(s, s.storage[key]) THEN cacheDelete(s, key, deleteOk)
    ELSE [s EXCEPT !.memoryCache[key] = s.storage[key]]

\* get(key): the value it returns
cacheGetValue(s, key, readOk) ==
    IF s.memoryCache[key].present
    THEN IF isExpired(s, s.memoryCache[key]) THEN NullValue ELSE s.memoryCache[key].value
    ELSE IF ~readOk THEN NullValue
    ELSE IF ~s.storage[key].present THEN NullValue
    ELSE IF isExpired(s, s.storage[key]) THEN NullValue
    ELSE s.storage[key].value

\* a set that writes the persistent tier first and gives up when that fails
cacheSetStorageFirst(s, key, value, ttl, writeOk) ==
    LET entry == [present |-> TRUE, value |-> value, timestamp |-> s.now, ttl |-> ttl]
    IN IF writeOk
       THEN [s EXCEPT !.memoryCache[key] = entry, !.storage[key] = entry]
       ELSE s

cacheSet(s, key, value, ttl, writeOk) ==
    LET entry == [present |-> TRUE, value |-> value, timestamp |-> s.now, ttl |-> ttl]
    IN [s EXCEPT !.memoryCache[key] = entry,
                 !.storage[key] = IF writeOk THEN entry ELSE @]

\* has(key) is get(key) !== null
cacheHas(s, key, readOk) == cacheGetValue(s, key, readOk) # NullValue

\* clear(): the memory tier is emptied; the loop over the persistent keys
\* stops at the first call that throws, leaving the keys in `kept`
cacheClear(s, kept) ==
    [s EXCEPT !.memoryCache = NoTier,
              !.storage = [k \in CacheKeys |-> IF k \in kept THEN @[k] ELSE NoEntry]]

\* cleanup(): expired entries leave the memory tier; the loop over the
\* persistent keys stops at the first call that throws, leaving `kept`
cacheCleanup(s, kept) ==
    [s EXCEPT !.memoryCache =
                  [k \in CacheKeys |-> IF @[k].present /\ isExpired(s, @[k])
                                        THEN NoEntry ELSE @[k]],
              !.storage =
                  [k \in CacheKeys |-> IF @[k].present /\ isExpired(s, @[k]) /\ k \notin kept
                                        THEN NoEntry ELSE @[k]]]

\* the entries an earlier process may have left in the persistent store
StoredBefore ==
    {NoEntry} \cup {[present |-> TRUE, value |-> v, timestamp |-> 0, ttl |-> l] :
                       v \in CacheValues, l \in Ttls}

(***************************************************************************)
(* CCFCatalog: the primary map (by abbreviation) and the lookup index (by  *)
(* abbreviation, full name and alias), built from the catalog file.  An    *)
(* entry object is identified by its position in the file.                 *)
(***************************************************************************)
MaxEntries == 3     \* entries of the catalog file

AbbrStrings == {"TAC", "fse "}
NameStrings == {"FSE", "Theory"}
CatalogRanks == {"A", "B", "C"}
\* the entries the catalog file is drawn from; the entries named "Theory"
\* carry the alias
CCFEntries ==
    {[name |-> n, abbr |-> a, rank |-> r,
      aliases |-> IF n = "Theory" THEN <<" tac">> ELSE <<>>] :
        n \in NameStrings, a \in AbbrStrings, r \in CatalogRanks}
KeyStrings == AbbrStrings \cup NameStrings \cup {" tac", "", " ", "VLDB"}

\* key.toLowerCase().trim()
normalizeKey(key) ==
    CASE key \in {"TAC", " tac", "tac"} -> "tac"
      [] key \in {"FSE", "fse ", "fse"} -> "fse"
      [] key \in {"Theory", "theory"} -> "theory"
      [] key \in {"VLDB", "vldb"} -> "vldb"
      [] key \in {"", " "} -> ""
NormalKeys == {normalizeKey(k) : k \in KeyStrings}

NoMap == [k \in NormalKeys |-> 0]
NoFindCall == [op |-> "none", key |-> "", ret |-> 0]
CatalogIdle ==
    /\ catalogData = <<>>
    /\ entries = NoMap
    /\ lookupIndex = NoMap
    /\ findCall = NoFindCall

rankScore == [A |-> 3, B |-> 2, C |-> 1]

\* a preference that also replaces an entry of equal rank
isPreferredPrimaryOrEqual(candidate, existing) ==
    rankScore[candidate.rank] >= rankScore[existing.rank]

isPreferredPrimary(candidate, existing) ==
    rankScore[candidate.rank] > rankScore[existing.rank]

\* a registration that overwrites an earlier one of the same key
addToLookupIndexOverwrite(s, key, i) ==
    LET normalizedKey == normalizeKey(key) IN
    IF normalizedKey # ""
    THEN [s EXCEPT !.lookupIndex[normalizedKey] = i]
    ELSE s

addToLookupIndex(s, key, i) ==
    LET normalizedKey == normalizeKey(key) IN
    IF normalizedKey # "" /\ s.lookupIndex[normalizedKey] = 0
    THEN [s EXCEPT !.lookupIndex[normalizedKey] = i]
    ELSE s

RECURSIVE addAliases(_, _, _)
addAliases(s, aliases, i) ==
    IF aliases = <<>> THEN s
    ELSE addAliases(addToLookupIndex(s, Head(aliases), i), Tail(aliases), i)

\* a loop body that registers the abbreviation like a name or an alias
\* (the first registration of a key wins)
loadEntryAddOnly(s, i) ==
    LET ccfEntry == s.catalogData[i]
        abbrKey == normalizeKey(ccfEntry.abbr)
        existingPrimary == s.entries[abbrKey]
        s1 == IF existingPrimary = 0
                 \/ isPreferredPrimary(ccfEntry, s.catalogData[existingPrimary])
              THEN addToLookupIndex([s EXCEPT !.entries[abbrKey] = i], ccfEntry.abbr, i)
              ELSE s
    IN  addAliases(addToLookupIndex(s1, ccfEntry.name, i), ccfEntry.aliases, i)

\* the body of the loop of loadCatalog for the i-th entry of the file
loadEntry(s, i) ==
    LET ccfEntry == s.catalogData[i]
        abbrKey == normalizeKey(ccfEntry.abbr)
        existingPrimary == s.entries[abbrKey]
        s1 == IF existingPrimary = 0
                 \/ isPreferredPrimary(ccfEntry, s.catalogData[existingPrimary])
              THEN [s EXCEPT !.entries[abbrKey] = i, !.lookupIndex[abbrKey] = i]
              ELSE s
    IN  addAliases(addToLookupIndex(s1, ccfEntry.name, i), ccfEntry.aliases, i)

RECURSIVE loadFrom(_, _)
loadFrom(s, i) ==
    IF i > Len(s.catalogData) THEN s ELSE loadFrom(loadEntry(s, i), i + 1)

\* constructor: two empty maps, then loadCatalog()
loadCatalog(s) == loadFrom([s EXCEPT !.entries = NoMap, !.lookupIndex = NoMap], 1)

\* findByKey(key): the entry (its index), 0 for null
findByKey(s, key) ==
    IF key = "" THEN 0 ELSE s.lookupIndex[normalizeKey(key)]

(***************************************************************************)
(* The fallback lookup service (DblpService) over the cache: queryByTitle  *)
(* from the call to the external request (queryStart) and from the         *)
(* response to the return (queryFinish), and queryBatch.                   *)
(***************************************************************************)
Titles == {"t1", "t2"}
EmptyTitle == ""
QueryTitles == {"t1", EmptyTitle}
serviceKey == [t1 |-> "dblp:t1", t2 |-> "dblp:t2"]
SvcResults == {"found", "notFound"}
SvcErrors == {"network", "timeout", "status", "parse"}
Outcomes == SvcResults \cup SvcErrors
BatchTitles == {<<"t1", "t2">>, <<"t1", "t1">>, <<"t2", "t1", "t2">>}

NoSvcCall == [ret |-> "none", external |-> FALSE]
NoSvcHist == [t \in Titles |-> [state |-> "none", value |-> "none", at |-> 0]]
NoBatch == [state |-> "idle", titles |-> <<>>, waiting |-> {},
            results |-> [t \in Titles |-> "none"], calls |-> [t \in Titles |-> 0]]
ServiceIdle ==
    /\ inflight = {}
    /\ svcCall = NoSvcCall
    /\ svcHist = NoSvcHist
    /\ batch = NoBatch

\* a queryByTitle that does not look into the cache
queryStartAlwaysCalls(s, title, readOk, deleteOk) ==
    IF title = EmptyTitle
    THEN [s EXCEPT !.svcCall = [ret |-> "empty", external |-> FALSE]]
    ELSE
    [s EXCEPT !.inflight = @ \cup {title},
              !.svcCall = [ret |-> "pending", external |-> TRUE]]

\* queryByTitle(title) up to the return of the cached Result (hit) or up
\* to the external call (miss)
queryStart(s, title, readOk, deleteOk) ==
    IF title = EmptyTitle
    THEN [s EXCEPT !.svcCall = [ret |-> "empty", external |-> FALSE]]
    ELSE
    LET cached == cacheGetValue(s, serviceKey[title], readOk)
        s1 == cacheGet(s, serviceKey[title], readOk, deleteOk)
    IN  IF cached # NullValue
        THEN [s1 EXCEPT !.svcCall = [ret |-> cached, external |-> FALSE]]
        ELSE [s1 EXCEPT !.inflight = @ \cup {title},
                        !.svcCall = [ret |-> "pending", external |-> TRUE]]

\* a service that caches whatever the call ended in
queryFinishCachesErrors(s, title, outcome, writeOk) ==
    [cacheSet(s, serviceKey[title], outcome, TtlTicks, writeOk) EXCEPT
        !.inflight = @ \ {title}]

\* the external call for `title` ended in `outcome`: a found or not-found
\* Result is cached, an error Result is not
queryFinish(s, title, outcome, writeOk) ==
    [(IF outcome \in SvcResults
      THEN cacheSet(s, serviceKey[title], outcome, TtlTicks, writeOk)
      ELSE s) EXCEPT !.inflight = @ \ {title}]

\* the body of queryBatch for one title that was not seen before in the batch
batchOne(s, title, readOk, deleteOk) ==
    LET s1 == queryStart(s, title, readOk, deleteOk) IN
    IF s1.svcCall.external
    THEN [s1 EXCEPT !.svcCall = s.svcCall,
                    !.batch.waiting = @ \cup {title},
                    !.batch.calls[title] = @ + 1]
    ELSE [s1 EXCEPT !.svcCall = s.svcCall,
                    !.batch.results[title] = s1.svcCall.ret]

\* a batch that asks once per occurrence of a title
RECURSIVE batchFromPerOccurrence(_, _, _, _, _)
batchFromPerOccurrence(s, titles, seen, readOk, deleteOk) ==
    IF titles = <<>> THEN s
    ELSE batchFromPerOccurrence(batchOne(s, Head(titles), readOk, deleteOk),
                                Tail(titles), seen \cup {Head(titles)}, readOk, deleteOk)

\* queryBatch up to the external calls: the titles are deduplicated
RECURSIVE batchFrom(_, _, _, _, _)
batchFrom(s, titles, seen, readOk, deleteOk) ==
    IF titles = <<>> THEN s
    ELSE batchFrom(IF Head(titles) \in seen THEN s
                   ELSE batchOne(s, Head(titles), readOk, deleteOk),
                   Tail(titles), seen \cup {Head(titles)}, readOk, deleteOk)

batchState(b) == IF b.waiting = {} THEN [b EXCEPT !.state = "done"] ELSE b

queryBatch(s, titles, readOk, deleteOk) ==
    LET s1 == batchFrom([s EXCEPT !.batch = [NoBatch EXCEPT !.state = "running",
                                                             !.titles = titles]],
                        titles, {}, readOk, deleteOk)
    IN  [s1 EXCEPT !.batch = batchState(@)]

\* the Result of a title the batch waits for arrives
batchReceive(s, title, outcome) ==
    [s EXCEPT !.batch = batchState([@ EXCEPT !.waiting = @ \ {title},
                                             !.results[title] = outcome])]

\* clearCache(): the cache is cleared
clearCache(s, kept) == cacheClear(s, kept)

\* the Clear Cache menu command of main.ts: GM_deleteValue on every key of
\* the persistent store that carries the prefix of the lookup service
menuClearCache(s) ==
    [s EXCEPT !.storage = [k \in CacheKeys |->
                              IF \E title \in Titles : serviceKey[title] = k
                              THEN NoEntry ELSE @[k]]]

(***************************************************************************)
(* VenueMatcher.  A venue string is a sequence of tokens; a token is a     *)
(* piece of text that the patterns of the matcher treat as a unit: a       *)
(* blank, a dash, a year, or a word.  Adjacent words form one word         *)
(* ("ICSE" "2020" is the text ICSE2020).  The alphabet has no parenthesis  *)
(* and no volume, issue, page or edition text, so the replacements of      *)
(* these five patterns leave every string of the alphabet unchanged.       *)
(***************************************************************************)
MaxVenueLen == 5    \* tokens of a venue string

VenueTokens == {" ", "-", "2020", "Proceedings", "of", "ICSE", "Data"}
WordTokens == VenueTokens \ {" ", "-"}
Venues == UNION {[1..n -> VenueTokens] : n \in 0..MaxVenueLen}
NullInput == <<"null">>

NoMatcherCall == [op |-> "none", ret |-> <<>>]
MatcherIdle ==
    /\ venue = <<>>
    /\ matcherCall = NoMatcherCall

\* the text of a token sequence
RECURSIVE Render(_)
Render(seq) == IF seq = <<>> THEN "" ELSE Head(seq) \o Render(Tail(seq))

lowerToken(tok) ==
    CASE tok = "Proceedings" -> "proceedings"
      [] tok = "ICSE" -> "icse"
      [] tok = "Data" -> "data"
      [] tok = "D" -> "d"
      [] tok = "I" -> "i"
      [] tok = "P" -> "p"
      [] tok = "O" -> "o"
      [] OTHER -> tok

toLowerCase(seq) == [i \in DOMAIN seq |-> lowerToken(seq[i])]

RECURSIVE dropLeading(_, _)
dropLeading(seq, set) ==
    IF seq # <<>> /\ Head(seq) \in set THEN dropLeading(Tail(seq), set) ELSE seq

RECURSIVE dropTrailing(_, _)
dropTrailing(seq, set) ==
    IF seq # <<>> /\ seq[Len(seq)] \in set
    THEN dropTrailing(SubSeq(seq, 1, Len(seq) - 1), set) ELSE seq

trim(seq) == dropTrailing(dropLeading(seq, {" "}), {" "})

\* CLEAN_PATTERNS.year, replaced by a blank: a year between word boundaries
removeYear(seq) ==
    [i \in DOMAIN seq |->
        IF /\ seq[i] = "2020"
           /\ (i = 1 \/ seq[i - 1] \notin WordTokens)
           /\ (i = Len(seq) \/ seq[i + 1] \notin WordTokens)
        THEN " " ELSE seq[i]]

\* CLEAN_PATTERNS.proceedings, removed: ^proceedings\s+(of\s+)?(the\s+)?
removeProceedings(seq) ==
    IF Len(seq) >= 2 /\ seq[1] = "Proceedings" /\ seq[2] = " "
    THEN LET rest == dropLeading(Tail(seq), {" "})
         IN  IF Len(rest) >= 2 /\ rest[1] = "of" /\ rest[2] = " "
             THEN dropLeading(Tail(rest), {" "})
             ELSE rest
    ELSE seq

\* [-]\s*(proceedings|workshop|symposium|conference)?\s*$ matches at d
matchesFromDash(seq, d) ==
    /\ seq[d] = "-"
    /\ LET rest == dropLeading(SubSeq(seq, d + 1, Len(seq)), {" "})
       IN  \/ rest = <<>>
           \/ rest[1] = "Proceedings" /\ dropLeading(Tail(rest), {" "}) = <<>>

\* CLEAN_PATTERNS.suffixes, removed (the leftmost match, with the blanks
\* in front of the dash)
removeSuffix(seq) ==
    LET dashes == {d \in DOMAIN seq : matchesFromDash(seq, d)}
    IN  IF dashes = {} THEN seq
        ELSE LET d == CHOOSE x \in dashes : \A y \in dashes : x <= y
             IN  dropTrailing(SubSeq(seq, 1, d - 1), {" "})

\* CLEAN_PATTERNS.multipleSpaces, replaced by one blank
RECURSIVE collapseSpaces(_)
collapseSpaces(seq) ==
    IF Len(seq) < 2 THEN seq
    ELSE IF seq[1] = " " /\ seq[2] = " " THEN collapseSpaces(Tail(seq))
    ELSE <<Head(seq)>> \o collapseSpaces(Tail(seq))

\* CLEAN_PATTERNS.punctuation, removed at both ends
trimPunctuation(seq) == dropTrailing(dropLeading(seq, {" ", "-"}), {" ", "-"})

cleanVenue(v) ==
    IF v = NullInput \/ v = <<>> THEN <<>>
    ELSE trim(trimPunctuation(collapseSpaces(removeSuffix(
             removeProceedings(removeYear(v))))))

\* the words of a string: the maximal runs of word tokens
RECURSIVE wordsOf(_, _)
wordsOf(seq, cur) ==
    IF seq = <<>> THEN (IF cur = <<>> THEN <<>> ELSE <<cur>>)
    ELSE IF Head(seq) \in WordTokens
    THEN wordsOf(Tail(seq), Append(cur, Head(seq)))
    ELSE (IF cur = <<>> THEN <<>> ELSE <<cur>>) \o wordsOf(Tail(seq), <<>>)

skipWords ==
    {"a", "an", "the", "of", "on", "in", "for", "and", "or", "to", "with",
     "proceedings", "international", "annual", "conference", "symposium",
     "workshop", "journal", "transactions", "ieee", "acm"}

\* word[0], in upper case
firstLetter(word) ==
    CASE word[1] = "2020" -> "2"
      [] word[1] = "Proceedings" -> "P"
      [] word[1] = "of" -> "O"
      [] word[1] = "ICSE" -> "I"
      [] word[1] = "Data" -> "D"

generateAcronym(v) ==
    IF v = NullInput \/ v = <<>> THEN <<>>
    ELSE LET words == SelectSeq(wordsOf(v, <<>>),
                                LAMBDA w : Render(toLowerCase(w)) \notin skipWords)
         IN  [i \in DOMAIN words |-> firstLetter(words[i])]

\* the catalog the matcher is constructed with: no two entries share a key
MatcherCatalog ==
    << [name |-> <<"Proceedings", " ", "of", " ", "ICSE">>, abbr |-> <<"ICSE">>,
        rank |-> "A", aliases |-> <<>>],
       [name |-> <<"Data", " ", "ICSE">>, abbr |-> <<"D", "D">>,
        rank |-> "B", aliases |-> <<>>] >>

NoEntryFound == 0

\* the keys of the lookup index that resolve to entry i
keysOf(i) ==
    {Render(toLowerCase(trim(MatcherCatalog[i].abbr))),
     Render(toLowerCase(trim(MatcherCatalog[i].name)))}
       \cup {Render(toLowerCase(trim(MatcherCatalog[i].aliases[n]))) :
                n \in DOMAIN MatcherCatalog[i].aliases}

\* catalog.findByKey(key): the entry (its index), NoEntryFound for null
catalogFindByKey(key) ==
    IF key = <<>> THEN NoEntryFound
    ELSE LET normalizedKey == Render(toLowerCase(trim(key)))
         IN  IF \E i \in DOMAIN MatcherCatalog : normalizedKey \in keysOf(i)
             THEN CHOOSE i \in DOMAIN MatcherCatalog : normalizedKey \in keysOf(i)
             ELSE NoEntryFound

\* new RegExp(`\\b${text}\\b`, 'i').test(normalizedVenue), for a text
\* made of word characters
containsWord(normalizedVenue, text) ==
    LET words == wordsOf(normalizedVenue, <<>>)
    IN  \E n \in DOMAIN words :
           Render(toLowerCase(words[n])) = Render(toLowerCase(text))

\* [...allEntries].sort((a, b) => b.abbr.length - a.abbr.length)
sortedEntries ==
    SortSeq([i \in DOMAIN MatcherCatalog |-> i],
            LAMBDA a, b : Len(Render(MatcherCatalog[a].abbr))
                             > Len(Render(MatcherCatalog[b].abbr)))

partialHit(v, i) ==
    \/ containsWord(v, MatcherCatalog[i].abbr)
    \/ \E n \in DOMAIN MatcherCatalog[i].aliases :
          /\ Len(Render(MatcherCatalog[i].aliases[n])) >= 3
          /\ containsWord(v, MatcherCatalog[i].aliases[n])

findPartialMatch(v) ==
    LET hits == {n \in DOMAIN sortedEntries : partialHit(v, sortedEntries[n])}
    IN  IF hits = {} THEN NoEntryFound
        ELSE sortedEntries[CHOOSE n \in hits : \A m \in hits : n <= m]

MatchOutcome(entry, confidence, cleanedVenue, lookups) ==
    [matched |-> entry # NoEntryFound, entry |-> entry, confidence |-> confidence,
     cleanedVenue |-> cleanedVenue, lookups |-> lookups]

\* the entry each strategy of match finds on its own, NoEntryFound for none
exactEntry(v) == catalogFindByKey(trim(v))

cleanedEntry(v) ==
    IF cleanVenue(v) # <<>> THEN catalogFindByKey(cleanVenue(v)) ELSE NoEntryFound

partialEntry(v) == findPartialMatch(v)

acronymEntry(v) ==
    LET acronym == generateAcronym(IF cleanVenue(v) # <<>> THEN cleanVenue(v) ELSE v)
    IN  IF Len(acronym) >= 2 THEN catalogFindByKey(acronym) ELSE NoEntryFound

\* a match that tries the partial strategy before the cleaned one
matchPartialFirst(v) ==
    LET cleanedVenue == cleanVenue(v)
        tryCleaned == cleanedVenue # <<>>
                         /\ Render(cleanedVenue) # Render(toLowerCase(trim(v)))
        acronym == generateAcronym(IF cleanedVenue # <<>> THEN cleanedVenue ELSE v)
    IN  IF v = NullInput \/ v = <<>> \/ trim(v) = <<>>
        THEN MatchOutcome(NoEntryFound, "none", cleanedVenue, <<>>)
        ELSE IF catalogFindByKey(trim(v)) # NoEntryFound
        THEN MatchOutcome(catalogFindByKey(trim(v)), "exact", cleanedVenue, <<"exact">>)
        ELSE IF findPartialMatch(v) # NoEntryFound
        THEN MatchOutcome(findPartialMatch(v), "partial", cleanedVenue,
                          <<"exact", "partial">>)
        ELSE IF tryCleaned /\ catalogFindByKey(cleanedVenue) # NoEntryFound
        THEN MatchOutcome(catalogFindByKey(cleanedVenue), "cleaned", cleanedVenue,
                          <<"exact", "partial", "cleaned">>)
        ELSE IF Len(acronym) >= 2 /\ catalogFindByKey(acronym) # NoEntryFound
        THEN MatchOutcome(catalogFindByKey(acronym), "acronym", cleanedVenue,
                          <<"exact", "partial", "cleaned", "acronym">>)
        ELSE MatchOutcome(NoEntryFound, "none", cleanedVenue,
                          <<"exact", "partial", "cleaned", "acronym">>)

\* a match without the early return for an empty venue
matchUnguarded(v) ==
    LET cleanedVenue == cleanVenue(v)
    IN  IF v # NullInput /\ catalogFindByKey(trim(v)) # NoEntryFound
        THEN MatchOutcome(catalogFindByKey(trim(v)), "exact", cleanedVenue, <<"exact">>)
        ELSE MatchOutcome(NoEntryFound, "none", cleanedVenue, <<"exact", "partial">>)

\* match(venue); `lookups` lists the strategies that went to the catalog
matchVenue(v) ==
    LET cleanedVenue == cleanVenue(v)
        tryCleaned == cleanedVenue # <<>>
                         /\ Render(cleanedVenue) # Render(toLowerCase(trim(v)))
        acronym == generateAcronym(IF cleanedVenue # <<>> THEN cleanedVenue ELSE v)
        tryAcronym == Len(acronym) >= 2
        upToCleaned == IF tryCleaned THEN <<"exact", "cleaned">> ELSE <<"exact">>
        upToAcronym == IF tryAcronym THEN upToCleaned \o <<"partial", "acronym">>
                       ELSE upToCleaned \o <<"partial">>
    IN  IF v = NullInput \/ v = <<>> \/ trim(v) = <<>>
        THEN MatchOutcome(NoEntryFound, "none", cleanedVenue, <<>>)
        ELSE IF catalogFindByKey(trim(v)) # NoEntryFound
        THEN MatchOutcome(catalogFindByKey(trim(v)), "exact", cleanedVenue, <<"exact">>)
        ELSE IF tryCleaned /\ catalogFindByKey(cleanedVenue) # NoEntryFound
        THEN MatchOutcome(catalogFindByKey(cleanedVenue), "cleaned", cleanedVenue,
                          upToCleaned)
        ELSE IF findPartialMatch(v) # NoEntryFound
        THEN MatchOutcome(findPartialMatch(v), "partial", cleanedVenue,
                          upToCleaned \o <<"partial">>)
        ELSE IF tryAcronym /\ catalogFindByKey(acronym) # NoEntryFound
        THEN MatchOutcome(catalogFindByKey(acronym), "acronym", cleanedVenue, upToAcronym)
        ELSE MatchOutcome(NoEntryFound, "none", cleanedVenue, upToAcronym)

(***************************************************************************)
(* The application: App.vue with its composables.                          *)
(***************************************************************************)
RankKeys == {"A", "B", "C", "unknown"}
ToggleKeys == {"A", "unknown"}

Init ==
    /\ currentAdapter \in {"arxiv", "dblp"}
    /\ pageSize = 0
    /\ showRanks = [r \in RankKeys |-> TRUE]
    /\ processedPapers = <<>>
    /\ processedElements = {}
    /\ domMarker = {}
    /\ mountedBadges = <<>>
    /\ dblpQueue = <<>>
    /\ running = {}
    /\ dblpActiveCount = 0
    /\ dblpInFlight = {}
    /\ processingEpoch = 0
    /\ drainTimers = 0
    /\ pendingUiUpdate = FALSE
    /\ badgeElements = NoBadgeElements
    /\ shownStats = NoStats
    /\ appMounted = TRUE
    /\ nextTask = 1
    /\ lastStarted = 0
    /\ cleared = {}
    /\ lastCall = NoCall
    /\ scanned = FALSE
    /\ synced = {}
    /\ CacheIdle
    /\ malformed = {}
    /\ CatalogIdle
    /\ ServiceIdle
    /\ MatcherIdle

\* the page loads another paper entry (dynamic content)
DomAddPaper ==
    /\ pageSize < NumPapers
    /\ Apply([St EXCEPT !.pageSize = @ + 1])

\* the mutation observer's callback: handlePageChange -> processPapers
HandlePageChange ==
    /\ appMounted
    /\ Apply(appProcessPapers(St))

\* the watcher on settings.showRanks: cleanup(); reset(true); processPapers()
SettingsChange(r) ==
    /\ appMounted
    /\ processingEpoch < MaxEpoch
    /\ Apply(appProcessPapers(lensReset(cleanup([St EXCEPT !.showRanks[r] = ~@]), TRUE)))

\* onUnmounted: cleanup()
Unmount ==
    /\ appMounted
    /\ processingEpoch < MaxEpoch
    /\ Apply([cleanup(St) EXCEPT !.appMounted = FALSE])

\* the lookup of a running task returns `result`
CompleteTask(t, result) ==
    /\ t \in running
    /\ Apply(completeTask(St, t, result))

\* a setTimeout(drainDblpQueue, 0) callback runs
DrainTick ==
    /\ drainTimers > 0
    /\ Apply(drainDblpQueue([St EXCEPT !.drainTimers = @ - 1]))

\* the coalesced UI update runs
RunUiUpdate ==
    /\ pendingUiUpdate
    /\ Apply(uiUpdate(St))

Next ==
    \/ DomAddPaper
    \/ HandlePageChange
    \/ \E r \in ToggleKeys : SettingsChange(r)
    \/ Unmount
    \/ \E t \in running, result \in Results : CompleteTask(t, result)
    \/ DrainTick
    \/ RunUiUpdate

Spec == Init /\ [][Next]_vars

\* Every lookup returns and every timer callback runs (the event loop).
CompleteSome == \E t \in running, result \in Results : CompleteTask(t, result)
FairSpec == Spec /\ WF_vars(CompleteSome) /\ WF_vars(DrainTick)

\* Every pending setTimeout callback of scheduleUiUpdate runs unless it is
\* cancelled.
FairUiSpec == Spec /\ WF_vars(RunUiUpdate)

(***************************************************************************)
(* SiteManager of labelpilot (the earlier variant): one idempotency        *)
(* channel, the in-memory id set.                                          *)
(***************************************************************************)
\* the body of the loop of processCurrentPage for one scraped paper
processOne(s, i) ==
    IF i \in s.processedElements THEN s
    ELSE [s EXCEPT !.processedPapers = (i :> newProcessedPaper(i)) @@ @,
                   !.processedElements = @ \cup {i}]

\* matcher.match(paper.venue) throws for a record whose venue is not a
\* string; the loop has no handler, the exception leaves processCurrentPage
throws(s, i) == i \notin s.processedElements /\ i \in s.malformed

RECURSIVE processFrom(_, _)
processFrom(s, i) ==
    IF i > s.pageSize THEN s
    ELSE IF throws(s, i) THEN s
    ELSE processFrom(processOne(s, i), i + 1)

\* a processCurrentPage that rebuilds the result map on every call
processCurrentPageRebuild(s) ==
    IF s.currentAdapter = "none" THEN s
    ELSE processFrom([s EXCEPT !.processedPapers = <<>>], 1)

processCurrentPage(s) ==
    IF s.currentAdapter = "none" THEN s ELSE processFrom(s, 1)

\* a markAsProcessed that flips the flag
markAsProcessedToggle(s, paperId) ==
    IF paperId \in DOMAIN s.processedPapers
    THEN [s EXCEPT !.processedPapers[paperId].processed = ~@]
    ELSE s

markAsProcessed(s, paperId) ==
    IF paperId \in DOMAIN s.processedPapers
    THEN [s EXCEPT !.processedPapers[paperId].processed = TRUE]
    ELSE s

isProcessed(s, paperId) == paperId \in s.processedElements

reset(s) == [s EXCEPT !.processedPapers = <<>>, !.processedElements = {}]

\* getPapersByRank(rank); NoRank stands for the argument null
getPapersByRank(s, rank) ==
    {i \in DOMAIN s.processedPapers :
        IF rank = NoRank THEN ~s.processedPapers[i].matchResult.matched
        ELSE s.processedPapers[i].matchResult.rank = rank}

\* The tracker driven through its interface.  Every step records the call
\* in lastCall; `scanned` tells whether the scraper's result set is the one
\* the last processCurrentPage saw.
InitLP ==
    /\ Init
    /\ currentAdapter = "arxiv"

LPInitialize(site) ==
    /\ currentAdapter # site
    /\ Apply([St EXCEPT !.currentAdapter = site, !.scanned = FALSE,
                        !.lastCall = Call("initialize", 0, FALSE, site # "none")])

LPDomAddPaper ==
    /\ pageSize < NumTracked
    /\ Apply([St EXCEPT !.pageSize = @ + 1, !.scanned = FALSE,
                        !.lastCall = Call("domAdd", pageSize + 1, FALSE, FALSE)])

\* the page loads a paper entry whose scraped record is malformed
LPDomAddMalformed ==
    /\ pageSize < NumTracked
    /\ Apply([St EXCEPT !.pageSize = @ + 1, !.scanned = FALSE,
                        !.malformed = @ \cup {pageSize + 1},
                        !.lastCall = Call("domAdd", pageSize + 1, FALSE, FALSE)])

LPProcessCurrentPage ==
    /\ pageSize \in 0..NumTracked
    /\ Apply([processCurrentPage(St) EXCEPT
                 !.scanned = TRUE,
                 !.lastCall = Call("processCurrentPage", 0, FALSE, scanned)])

LPMarkAsProcessed(id) ==
    /\ id \in TrackedIds
    /\ Apply([markAsProcessed(St, id) EXCEPT
                 !.lastCall = Call("markAsProcessed", id, FALSE, FALSE)])

LPIsProcessed(id) ==
    /\ id \in TrackedIds
    /\ Apply([St EXCEPT !.lastCall = Call("isProcessed", id, FALSE, isProcessed(St, id))])

LPReset ==
    /\ pageSize \in 0..NumTracked
    /\ Apply([reset(St) EXCEPT !.scanned = FALSE,
                               !.lastCall = Call("reset", 0, FALSE, FALSE)])

NextLP ==
    \/ LPDomAddMalformed
    \/ \E site \in {"none", "arxiv"} : LPInitialize(site)
    \/ LPDomAddPaper
    \/ LPProcessCurrentPage
    \/ \E id \in TrackedIds : LPMarkAsProcessed(id)
    \/ \E id \in TrackedIds : LPIsProcessed(id)
    \/ LPReset

SpecLP == InitLP /\ [][NextLP]_vars

(***************************************************************************)
(* SiteManager of ccf-lens driven through its interface.  Elements may     *)
(* carry the marker before the tracker exists (it survives the tracker).   *)
(***************************************************************************)
lensIsProcessed(s, id, withElement) ==
    (withElement /\ hasProcessedMarker(s, id)) \/ id \in s.processedElements

lensIsProcessedSync(s, id, withElement) ==
    IF withElement THEN syncFromMarker(s, id) ELSE s

InitTracker ==
    /\ currentAdapter = "arxiv"
    /\ pageSize = 0
    /\ showRanks = [r \in RankKeys |-> TRUE]
    /\ processedPapers = <<>>
    /\ processedElements = {}
    /\ domMarker \in SUBSET TrackedIds
    /\ mountedBadges = <<>>
    /\ dblpQueue = <<>>
    /\ running = {}
    /\ dblpActiveCount = 0
    /\ dblpInFlight = {}
    /\ processingEpoch = 0
    /\ drainTimers = 0
    /\ pendingUiUpdate = FALSE
    /\ badgeElements = NoBadgeElements
    /\ shownStats = NoStats
    /\ appMounted = TRUE
    /\ nextTask = 1
    /\ lastStarted = 0
    /\ cleared = {}
    /\ lastCall = NoCall
    /\ scanned = FALSE
    /\ synced = {}
    /\ CacheIdle
    /\ malformed = {}
    /\ CatalogIdle
    /\ ServiceIdle
    /\ MatcherIdle

TrDomAddPaper ==
    /\ pageSize < NumTracked
    /\ Apply([St EXCEPT !.pageSize = @ + 1, !.scanned = FALSE,
                        !.lastCall = Call("domAdd", pageSize + 1, FALSE, FALSE)])

TrProcessCurrentPage ==
    /\ pageSize \in 0..NumTracked
    /\ Apply([lensProcessCurrentPage(St) EXCEPT
                 !.scanned = TRUE,
                 !.lastCall =
                     IF lastCall.op = "reset"
                     THEN [Call("processCurrentPage", 0, FALSE, scanned) EXCEPT
                              !.marked = lastCall.marked,
                              !.afterReset = IF lastCall.ret THEN "true" ELSE "false"]
                     ELSE Call("processCurrentPage", 0, FALSE, scanned)])

TrMarkAsProcessed(id) ==
    /\ id \in TrackedIds
    /\ Apply([lensMarkAsProcessed(St, id) EXCEPT
                 !.lastCall = Call("markAsProcessed", id, FALSE, FALSE)])

TrIsProcessed(id, withElement) ==
    /\ id \in TrackedIds
    /\ Apply([lensIsProcessedSync(St, id, withElement) EXCEPT
                 !.synced = IF withElement /\ hasProcessedMarker(St, id)
                            THEN @ \cup {id} ELSE @,
                 !.lastCall = Call("isProcessed", id, withElement,
                                   lensIsProcessed(St, id, withElement))])

TrReset(clearDomMarkers) ==
    /\ clearDomMarkers \in BOOLEAN
    /\ Apply([lensReset(St, clearDomMarkers) EXCEPT
                 !.scanned = FALSE,
                 !.synced = {},
                 !.lastCall = [Call("reset", 0, FALSE, clearDomMarkers) EXCEPT
                                 !.marked = {i \in DOMAIN processedPapers :
                                                processedPapers[i].processed}]])

NextTracker ==
    \/ TrDomAddPaper
    \/ TrProcessCurrentPage
    \/ \E id \in TrackedIds : TrMarkAsProcessed(id)
    \/ \E id \in TrackedIds, withElement \in BOOLEAN : TrIsProcessed(id, withElement)
    \/ \E b \in BOOLEAN : TrReset(b)

SpecTracker == InitTracker /\ [][NextTracker]_vars

(***************************************************************************)
(* The same tracker without the call history, for the behaviours in which  *)
(* the page finishes loading and keeps being scanned (the mutation         *)
(* observer calls processCurrentPage after every change of the page).      *)
(***************************************************************************)
SyDomAddPaper ==
    /\ pageSize < NumTracked
    /\ Apply([St EXCEPT !.pageSize = @ + 1])

SyProcessCurrentPage ==
    /\ pageSize \in 0..NumTracked
    /\ Apply(lensProcessCurrentPage(St))

SyMarkAsProcessed(id) ==
    /\ id \in TrackedIds
    /\ Apply(lensMarkAsProcessed(St, id))

SyIsProcessed(id) ==
    /\ id \in TrackedIds
    /\ Apply(lensIsProcessedSync(St, id, TRUE))

SyReset(clearDomMarkers) ==
    /\ clearDomMarkers \in BOOLEAN
    /\ Apply(lensReset(St, clearDomMarkers))

NextSync ==
    \/ SyDomAddPaper
    \/ SyProcessCurrentPage
    \/ \E id \in TrackedIds : SyMarkAsProcessed(id)
    \/ \E id \in TrackedIds : SyIsProcessed(id)
    \/ \E b \in BOOLEAN : SyReset(b)

FairTracker ==
    /\ InitTracker
    /\ [][NextSync]_vars
    /\ WF_vars(SyDomAddPaper)
    /\ WF_vars(SyProcessCurrentPage)

(***************************************************************************)
(* The cache driven through its interface, on a persistent store that an   *)
(* earlier process may have written and whose calls may throw.             *)
(***************************************************************************)
\* no page, no adapter work, no lookup queued: the application stands still
AppIdle ==
    /\ currentAdapter = "arxiv"
    /\ pageSize = 0
    /\ showRanks = [r \in RankKeys |-> TRUE]
    /\ processedPapers = <<>>
    /\ processedElements = {}
    /\ domMarker = {}
    /\ mountedBadges = <<>>
    /\ dblpQueue = <<>>
    /\ running = {}
    /\ dblpActiveCount = 0
    /\ dblpInFlight = {}
    /\ processingEpoch = 0
    /\ drainTimers = 0
    /\ pendingUiUpdate = FALSE
    /\ badgeElements = NoBadgeElements
    /\ shownStats = NoStats
    /\ appMounted = TRUE
    /\ nextTask = 1
    /\ lastStarted = 0
    /\ cleared = {}
    /\ lastCall = NoCall
    /\ scanned = FALSE
    /\ synced = {}
    /\ malformed = {}

InitCache ==
    /\ AppIdle
    /\ memoryCache = NoTier
    /\ \E f \in [DirectKeys -> StoredBefore] :
          storage = [k \in CacheKeys |-> IF k \in DirectKeys THEN f[k] ELSE NoEntry]
    /\ now = 0
    /\ cacheCall = NoCacheCall
    /\ cacheHist = NoHist
    /\ CatalogIdle
    /\ ServiceIdle
    /\ MatcherIdle

Tick ==
    /\ now < MaxNow
    /\ Apply([St EXCEPT !.now = @ + 1])

CGet(key, readOk, deleteOk) ==
    /\ key \in DirectKeys
    /\ Apply([cacheGet(St, key, readOk, deleteOk) EXCEPT
                 !.cacheCall = [op |-> "get", key |-> key,
                                ret |-> cacheGetValue(St, key, readOk)]])

CHas(key, readOk, deleteOk) ==
    /\ key \in DirectKeys
    /\ Apply([cacheGet(St, key, readOk, deleteOk) EXCEPT
                 !.cacheCall = [op |-> "has", key |-> key,
                                ret |-> IF cacheHas(St, key, readOk) THEN "true" ELSE "false"]])

CSet(key, value, ttl, writeOk) ==
    /\ key \in DirectKeys
    /\ Apply([cacheSet(St, key, value, ttl, writeOk) EXCEPT
                 !.cacheCall = [op |-> "set", key |-> key, ret |-> NullValue],
                 !.cacheHist[key] = [state |-> "set", value |-> value, timestamp |-> now,
                                     ttl |-> ttl, persisted |-> writeOk]])

CDelete(key, deleteOk) ==
    /\ key \in DirectKeys
    /\ Apply([cacheDelete(St, key, deleteOk) EXCEPT
                 !.cacheCall = [op |-> "delete", key |-> key, ret |-> NullValue],
                 !.cacheHist[key] = [NoHist[key] EXCEPT !.state = "deleted"]])

CClear(kept) ==
    /\ kept \subseteq {k \in DirectKeys : storage[k].present}
    /\ Apply([cacheClear(St, kept) EXCEPT
                 !.cacheCall = [op |-> "clear", key |-> "none", ret |-> NullValue],
                 !.cacheHist = NoHist])

CCleanup(kept) ==
    /\ kept \subseteq {k \in DirectKeys : storage[k].present /\ isExpired(St, storage[k])}
    /\ Apply([cacheCleanup(St, kept) EXCEPT
                 !.cacheCall = [op |-> "cleanup", key |-> "none", ret |-> NullValue]])

NextCache ==
    \/ Tick
    \/ \E key \in DirectKeys, readOk, deleteOk \in BOOLEAN : CGet(key, readOk, deleteOk)
    \/ \E key \in DirectKeys, readOk, deleteOk \in BOOLEAN : CHas(key, readOk, deleteOk)
    \/ \E key \in DirectKeys, value \in CacheValues, ttl \in Ttls, writeOk \in BOOLEAN :
          CSet(key, value, ttl, writeOk)
    \/ \E key \in DirectKeys, deleteOk \in BOOLEAN : CDelete(key, deleteOk)
    \/ \E kept \in SUBSET DirectKeys : CClear(kept)
    \/ \E kept \in SUBSET DirectKeys : CCleanup(kept)

SpecCache == InitCache /\ [][NextCache]_vars

(***************************************************************************)
(* The catalog: constructed from a catalog file, then queried.             *)
(***************************************************************************)
InitCatalog ==
    /\ AppIdle
    /\ CacheIdle
    /\ ServiceIdle
    /\ MatcherIdle
    /\ catalogData \in UNION {[1..n -> CCFEntries] : n \in 1..MaxEntries}
    /\ entries = NoMap
    /\ lookupIndex = NoMap
    /\ findCall = NoFindCall

Constructed == findCall.op # "none"

\* new CCFCatalog()
Construct ==
    /\ ~Constructed
    /\ Apply([loadCatalog(St) EXCEPT !.findCall = [NoFindCall EXCEPT !.op = "new"]])

FindByKey(key) ==
    /\ Constructed
    /\ Apply([St EXCEPT !.findCall = [op |-> "findByKey", key |-> key,
                                      ret |-> findByKey(St, key)]])

NextCatalog ==
    \/ Construct
    \/ \E key \in KeyStrings : FindByKey(key)

SpecCatalog == InitCatalog /\ [][NextCatalog]_vars

(***************************************************************************)
(* The lookup service driven through its interface.  The persistent store  *)
(* may hold Results of an earlier page load.  A caller waits for the       *)
(* Result of a title before it asks for the same title again.              *)
(***************************************************************************)
CachedBefore ==
    {NoEntry} \cup {[present |-> TRUE, value |-> v, timestamp |-> 0, ttl |-> TtlTicks] :
                       v \in SvcResults}

InitService ==
    /\ AppIdle
    /\ CatalogIdle
    /\ ServiceIdle
    /\ MatcherIdle
    /\ memoryCache = NoTier
    /\ \E f \in [Titles -> CachedBefore] :
          storage = [k \in CacheKeys |->
                        IF \E t \in Titles : serviceKey[t] = k
                        THEN f[CHOOSE t \in Titles : serviceKey[t] = k] ELSE NoEntry]
    /\ now = 0
    /\ cacheCall = NoCacheCall
    /\ cacheHist = NoHist

QueryByTitle(title, readOk, deleteOk) ==
    /\ title \in QueryTitles
    /\ title \notin inflight
    /\ Apply([queryStart(St, title, readOk, deleteOk) EXCEPT
                 !.svcHist = [t \in Titles |->
                                 IF t = title /\ @[t].state = "error"
                                 THEN [@[t] EXCEPT !.state = "retried"] ELSE @[t]]])

\* the external call for `title` ends in `outcome`
Respond(title, outcome, writeOk) ==
    /\ title \in inflight
    /\ LET s1 == [queryFinish(St, title, outcome, writeOk) EXCEPT
                     !.svcHist[title] =
                         IF outcome \in SvcResults
                         THEN [state |-> "success", value |-> outcome, at |-> now]
                         ELSE [state |-> "error", value |-> "none", at |-> now]]
       IN  Apply(IF title \in batch.waiting
                 THEN batchReceive(s1, title, outcome)
                 ELSE [s1 EXCEPT !.svcCall = [ret |-> outcome, external |-> TRUE]])

QueryBatch(titles, readOk, deleteOk) ==
    /\ batch.state = "idle"
    /\ \A i \in DOMAIN titles : titles[i] \notin inflight
    /\ Apply(queryBatch(St, titles, readOk, deleteOk))

ClearCache(kept) ==
    /\ kept \subseteq {k \in CacheKeys : storage[k].present}
    /\ Apply([clearCache(St, kept) EXCEPT
                 !.svcHist = [t \in Titles |->
                                 IF @[t].state = "success"
                                 THEN [NoSvcHist[t] EXCEPT !.state = "cleared"] ELSE @[t]]])

\* single lookups, of one title and of the empty title
NextService ==
    \/ Tick
    \/ \E title \in QueryTitles, readOk, deleteOk \in BOOLEAN :
          QueryByTitle(title, readOk, deleteOk)
    \/ \E title \in Titles, outcome \in Outcomes, writeOk \in BOOLEAN :
          Respond(title, outcome, writeOk)
    \/ \E kept \in SUBSET CacheKeys : ClearCache(kept)

SpecService == InitService /\ [][NextService]_vars

\* one batch lookup
NextBatch ==
    \/ Tick
    \/ \E titles \in BatchTitles, readOk, deleteOk \in BOOLEAN :
          QueryBatch(titles, readOk, deleteOk)
    \/ \E title \in Titles, outcome \in Outcomes, writeOk \in BOOLEAN :
          Respond(title, outcome, writeOk)
    \/ \E kept \in SUBSET CacheKeys : ClearCache(kept)

SpecBatch == InitService /\ [][NextBatch]_vars

\* the user picks Clear Cache in the userscript menu
MenuClearCache ==
    /\ \E title \in Titles : svcHist[title].state = "success"
    /\ Apply([menuClearCache(St) EXCEPT
                 !.svcHist = [title \in Titles |->
                                 IF @[title].state = "success"
                                 THEN [@[title] EXCEPT !.state = "menuCleared"]
                                 ELSE @[title]]])

\* single lookups and the menu command
NextMenu ==
    \/ Tick
    \/ \E title \in QueryTitles, readOk, deleteOk \in BOOLEAN :
          QueryByTitle(title, readOk, deleteOk)
    \/ \E title \in Titles, outcome \in Outcomes, writeOk \in BOOLEAN :
          Respond(title, outcome, writeOk)
    \/ MenuClearCache

SpecMenu == InitService /\ [][NextMenu]_vars

(***************************************************************************)
(* The venue matcher: a venue string arrives, is cleaned and is matched.   *)
(***************************************************************************)
InitMatcher ==
    /\ AppIdle
    /\ CacheIdle
    /\ CatalogIdle
    /\ ServiceIdle
    /\ venue \in Venues \cup {NullInput}
    /\ matcherCall = NoMatcherCall

\* matcher.cleanVenue(venue)
CleanVenue ==
    /\ matcherCall.op # "cleanVenue"
    /\ Apply([St EXCEPT !.matcherCall = [op |-> "cleanVenue", ret |-> cleanVenue(venue)]])

\* matcher.match(venue)
Match ==
    /\ matcherCall.op # "match"
    /\ Apply([St EXCEPT !.matcherCall = [op |-> "match", ret |-> matchVenue(venue)]])

NextMatcher ==
    \/ CleanVenue
    \/ Match

SpecMatcher == InitMatcher /\ [][NextMatcher]_vars

(***************************************************************************)
(* Claims                                                                  *)
(***************************************************************************)
ResultSetSize == Cardinality(DOMAIN processedPapers)
QueuedTids == {dblpQueue[k].tid : k \in 1..Len(dblpQueue)}
QueuedTasks == {[tid |-> dblpQueue[k].tid, id |-> dblpQueue[k].id] : k \in 1..Len(dblpQueue)}
RunningTasks == {[tid |-> t.tid, id |-> t.id] : t \in running}
TaskBound == NumPapers * (MaxEpoch + 1)

\* C1: a processCurrentPage() that follows an earlier one, with the scraper's
\* result set unchanged and no reset in between, leaves the size of the
\* result set as it was (so the size after every call is that after call 1).
C1_RepeatedScanKeepsSize ==
    [][(scanned /\ lastCall'.op = "processCurrentPage")
          => Cardinality(DOMAIN processedPapers') = ResultSetSize]_vars

\* a repeated scan of a page with at least two entries in the result set
C1_Witness ==
    /\ lastCall.op = "processCurrentPage"
    /\ lastCall.ret
    /\ ResultSetSize >= 2

\* C2: every task that is in the queue eventually leaves it (it is started,
\* or a clear() removes it), given that every started task completes and
\* every scheduled drain runs.
C2_QueuedTaskEventuallyStarted ==
    \A n \in 1..TaskBound : (n \in QueuedTids) ~> (n \notin QueuedTids)

\* C3: the completion of a task whose epoch at enqueue is no longer the
\* current epoch changes neither the entry records, nor the badge states,
\* nor the in-flight id set, and schedules no UI update.
C3_StaleTaskChangesNothing ==
    [][\A t \in running, result \in Results :
          (t.epochAtEnqueue # processingEpoch /\ CompleteTask(t, result))
             => UNCHANGED <<processedPapers, mountedBadges, dblpInFlight, pendingUiUpdate>>]_vars

\* C4: at most DBLP_LOOKUP_CONCURRENCY tasks are started and not yet completed.
C4_AtMostTwoRunning == Cardinality(running) <= DBLP_LOOKUP_CONCURRENCY

\* the cap binds: two tasks run while another waits in the queue
C4_Witness == Cardinality(running) = DBLP_LOOKUP_CONCURRENCY /\ Len(dblpQueue) > 0

\* C5: tasks start in submission order: every task still waiting in the
\* queue was submitted after every task started so far.
C5_FifoStart == \A n \in QueuedTids : n > lastStarted

\* a task was taken from a queue that held a later task too
C5_Witness ==
    \E t \in running : \E n \in QueuedTids :
        t.tid > DBLP_LOOKUP_CONCURRENCY /\ n > t.tid /\ Len(dblpQueue) >= 2

\* C6: clear() empties the pending queue: a task that clear() removed is
\* neither left in the queue nor ever started.
C6_ClearedNeverStarted ==
    /\ \A t \in running : t.tid \notin cleared
    /\ QueuedTids \cap cleared = {}

\* a clear() removed a pending task and a task submitted later is running
C6_Witness ==
    /\ cleared # {}
    /\ \E t \in running : \A n \in cleared : t.tid > n

\* C7: no lookup for an entry id is enqueued while another lookup for the
\* same id is queued or running: the tasks queued or running have
\* pairwise different entry ids.
C7_NoDuplicateLookup ==
    \A a, b \in QueuedTasks \cup RunningTasks : a.id = b.id => a.tid = b.tid

\* C8: processCurrentPage() does not add an entry whose element carries
\* the marker, although its id is not in the memory set; on a tracker with
\* an empty result set the size after the call is the number of scraper
\* entries without a marker.
C8_MarkedEntrySkipped ==
    [][lastCall'.op = "processCurrentPage" =>
          /\ \A i \in 1..pageSize :
                (i \in domMarker /\ i \notin DOMAIN processedPapers)
                   => i \notin DOMAIN processedPapers'
          /\ (processedPapers = <<>> /\ processedElements = {})
                => Cardinality(DOMAIN processedPapers')
                      = Cardinality({i \in 1..pageSize : i \notin domMarker})]_vars

\* a scan that skipped a marked entry unknown to the memory set and added another
C8_Witness ==
    /\ lastCall.op = "processCurrentPage"
    /\ \E i, j \in 1..pageSize :
          /\ i \in domMarker /\ i \notin DOMAIN processedPapers
          /\ j \notin domMarker /\ j \in DOMAIN processedPapers
    /\ \A i \in DOMAIN processedPapers : ~processedPapers[i].processed

\* C9: isProcessed(id, element) on a marked element returns true and puts
\* id into the memory set; until the next reset isProcessed(id) without an
\* element returns true.
C9_MarkerFoundSyncsMemory ==
    [][/\ (lastCall'.op = "isProcessed" /\ lastCall'.withElement /\ lastCall'.id \in domMarker)
            => (lastCall'.ret /\ lastCall'.id \in processedElements')
       /\ (lastCall'.op = "isProcessed" /\ ~lastCall'.withElement /\ lastCall'.id \in synced')
            => lastCall'.ret]_vars

\* isProcessed(id) without an element, after isProcessed(id, element) found
\* the marker of an entry the tracker never marked itself
C9_Witness ==
    /\ lastCall.op = "isProcessed" /\ ~lastCall.withElement
    /\ lastCall.id \in synced
    /\ lastCall.id \notin DOMAIN processedPapers
    /\ lastCall.ret

C11_ResetTrueReincludesMarked ==
    (lastCall.op = "processCurrentPage" /\ lastCall.afterReset = "true")
       => \A i \in lastCall.marked :
             /\ i \notin domMarker
             /\ i <= pageSize => i \in DOMAIN processedPapers

\* the scan after reset(true) added two entries again that were marked before
C11_Witness ==
    /\ lastCall.op = "processCurrentPage"
    /\ lastCall.afterReset = "true"
    /\ Cardinality(lastCall.marked) >= 2
    /\ lastCall.marked \subseteq DOMAIN processedPapers

C13_ResetFalseKeepsSkipping ==
    [][(lastCall.op = "reset" /\ ~lastCall.ret /\ lastCall'.op = "processCurrentPage")
          => /\ processedElements = {}
             /\ \A i \in lastCall.marked :
                   i \in domMarker /\ i \notin DOMAIN processedPapers']_vars

\* the scan after reset(false) skipped a marked entry and added an unmarked one
C13_Witness ==
    /\ lastCall.op = "processCurrentPage"
    /\ lastCall.afterReset = "false"
    /\ \E i \in lastCall.marked : i <= pageSize /\ i \notin DOMAIN processedPapers
    /\ processedPapers # <<>>

\* C14: after reset(b), for either b, the result set is empty and
\* isProcessed(id) without an element returns false for every id.
C14_ResetEmptiesMemory ==
    lastCall.op = "reset"
       => /\ processedPapers = <<>>
          /\ \A id \in TrackedIds : ~lensIsProcessed(St, id, FALSE)

\* a reset(false) of a tracker with marked entries: the markers are still
\* there and the memory is empty
C14_Witness ==
    /\ lastCall.op = "reset"
    /\ ~lastCall.ret
    /\ Cardinality(lastCall.marked) >= 2
    /\ lastCall.marked \subseteq domMarker

\* C15: processCurrentPage() sets no marker, and an element acquires the
\* marker only in a markAsProcessed call for its entry, which leaves the
\* entry Marked (processed, in the memory set, marker set).
C15_MarkerOnlyByMarkAsProcessed ==
    [][/\ lastCall'.op = "processCurrentPage" => domMarker' = domMarker
       /\ \A i \in TrackedIds :
             (i \notin domMarker /\ i \in domMarker')
                => /\ lastCall'.op = "markAsProcessed"
                   /\ lastCall'.id = i
                   /\ processedPapers'[i].processed
                   /\ i \in processedElements']_vars

\* a scan added an entry and left its element unmarked, while another
\* entry carries the marker set by markAsProcessed
C15_Witness ==
    /\ lastCall.op = "processCurrentPage"
    /\ \E i, k \in DOMAIN processedPapers :
          /\ ~processedPapers[i].processed /\ i \notin domMarker
          /\ processedPapers[k].processed /\ k \in domMarker

\* C16: every step other than the reset of the tracker (page growth, page
\* scan with badge mounting and markAsProcessed, completion of a lookup,
\* drain, UI update, unmount) keeps every entry of the result set.
C16_ResultSetOnlyGrows ==
    [][~(\E r \in ToggleKeys : SettingsChange(r))
          => DOMAIN processedPapers \subseteq DOMAIN processedPapers']_vars

\* a result set of three entries, one marked and one reclassified by a lookup
C16_Witness ==
    /\ ResultSetSize >= 3
    /\ \E i, k \in DOMAIN processedPapers :
          /\ processedPapers[i].processed
          /\ processedPapers[k].venueSource = "dblp"

\* C17: the processed flag of an entry is false when the entry is added,
\* becomes true only in a markAsProcessed call for that entry, and once
\* true stays true in every step other than reset (so it flips once).
C17_ProcessedFlipsOnce ==
    [][\A i \in TrackedIds :
          /\ (i \notin DOMAIN processedPapers /\ i \in DOMAIN processedPapers')
                => ~processedPapers'[i].processed
          /\ (i \in DOMAIN processedPapers /\ i \in DOMAIN processedPapers'
                 /\ ~processedPapers[i].processed /\ processedPapers'[i].processed)
                => (lastCall'.op = "markAsProcessed" /\ lastCall'.id = i)
          /\ (i \in DOMAIN processedPapers /\ processedPapers[i].processed
                 /\ lastCall'.op # "reset")
                => (i \in DOMAIN processedPapers' /\ processedPapers'[i].processed)]_vars

\* markAsProcessed called again for an entry that is processed already,
\* next to an entry that is not
C17_Witness ==
    /\ lastCall.op = "markAsProcessed"
    /\ lastCall.id \in DOMAIN processedPapers
    /\ processedPapers[lastCall.id].processed
    /\ \E k \in DOMAIN processedPapers : ~processedPapers[k].processed
    /\ scanned

\* C18: in every reachable state the four counts of getStatistics() add up
\* to its total, and the total is the size of the result set.
C18_StatisticsPartition ==
    LET stats == getStatistics(St)
    IN /\ stats.byRank.A + stats.byRank.B + stats.byRank.C + stats.byRank.unknown
             = stats.total
       /\ stats.total = ResultSetSize

\* statistics over an entry the scraper classified, an entry a lookup
\* reclassified to rank A and an entry of unknown rank
C18_Witness ==
    /\ getStatistics(St).byRank.A >= 2
    /\ getStatistics(St).byRank.unknown >= 1
    /\ \E i \in DOMAIN processedPapers :
          processedPapers[i].venueSource = "dblp" /\ processedPapers[i].matchResult.matched

\* C19: when the lookup of a task of the current epoch returns found with a
\* venue, the entry's venue becomes the returned venue, its venueSource
\* dblp and its matchResult the result of match on the returned venue.
C19_FoundReclassifies ==
    [][\A t \in running, result \in Results :
          (/\ t.epochAtEnqueue = processingEpoch
           /\ result.kind = "found" /\ result.venue # NullVenue
           /\ CompleteTask(t, result))
             => /\ processedPapers'[t.id].venue = result.venue
                /\ processedPapers'[t.id].venueSource = "dblp"
                /\ processedPapers'[t.id].matchResult = match(result.venue)]_vars

\* an entry scraped without venue that a lookup reclassified to rank A
C19_Witness ==
    \E i \in DOMAIN processedPapers :
        /\ ScrapedVenue(i) = NullVenue
        /\ processedPapers[i].venue = "CVPR"
        /\ processedPapers[i].venueSource = "dblp"
        /\ processedPapers[i].matchResult.rank = "A"
        /\ i \notin dblpInFlight

\* C20: when the lookup of a task returns an error or a timeout, every
\* entry keeps its venue, venueSource, year and matchResult; the badge of a
\* task of the current epoch stops loading and shows the error, and nothing
\* else of the badges changes.
C20_FailedLookupKeepsClassification ==
    [][\A t \in running, result \in Results :
          (result.kind = "error" /\ CompleteTask(t, result))
             => /\ processedPapers' = processedPapers
                /\ mountedBadges' =
                      IF t.epochAtEnqueue = processingEpoch
                      THEN [mountedBadges EXCEPT ![t.id].loading = FALSE,
                                                 ![t.id].error = errorMessage(result)]
                      ELSE mountedBadges]_vars

\* a badge that shows a timeout on an entry still classified as scraped
C20_Witness ==
    \E i \in DOMAIN mountedBadges :
        /\ mountedBadges[i].error = "timeout"
        /\ ~mountedBadges[i].loading
        /\ i \in DOMAIN processedPapers
        /\ processedPapers[i].venueSource = "unknown"
        /\ ~processedPapers[i].matchResult.matched

\* C21: an entry enters the result set with the matchResult of its
\* classification; in every step other than the reset of the tracker the
\* matchResult of an entry changes only when a lookup task of the current
\* epoch for that entry returns found with a venue.
C21_MatchResultSetOnce ==
    [][~(\E r \in ToggleKeys : SettingsChange(r))
          => \A i \in DOMAIN processedPapers' :
                IF i \notin DOMAIN processedPapers
                THEN processedPapers'[i].matchResult = classify(i)
                ELSE processedPapers'[i].matchResult # processedPapers[i].matchResult
                        => \E t \in running, result \in Results :
                              /\ t.id = i
                              /\ t.epochAtEnqueue = processingEpoch
                              /\ result.kind = "found" /\ result.venue # NullVenue
                              /\ CompleteTask(t, result)]_vars

\* one lookup left the classification alone (not found), another replaced it
C21_Witness ==
    \E i, k \in DOMAIN processedPapers :
        /\ processedPapers[i].matchResult = classify(i)
        /\ i \in DOMAIN mountedBadges /\ ~mountedBadges[i].loading
        /\ ScrapedVenue(i) = NullVenue /\ hasArxivPublicationSignal(i)
        /\ currentAdapter = "arxiv"
        /\ processedPapers[k].matchResult # classify(k)

\* C25: from a delete(k) until the next set(k) (or clear), the record of k
\* is absent from the memory tier and from the persistent tier, get(k)
\* returns null and has(k) is false.
C25_DeletedStaysAbsent ==
    \A k \in CacheKeys :
        cacheHist[k].state = "deleted"
           => /\ ~memoryCache[k].present
              /\ ~storage[k].present
              /\ cacheGetValue(St, k, TRUE) = NullValue
              /\ ~cacheHas(St, k, TRUE)

\* C26: a get(k) that finds an expired record, in the memory tier or (the
\* memory tier having none) in the persistent tier, returns null and leaves
\* both tiers without a record of k.
C26_ExpiredRemovedFromBothTiers ==
    [][\A k \in CacheKeys, readOk, deleteOk \in BOOLEAN :
          (/\ CGet(k, readOk, deleteOk)
           /\ \/ memoryCache[k].present /\ isExpired(St, memoryCache[k])
              \/ /\ ~memoryCache[k].present /\ readOk
                 /\ storage[k].present /\ isExpired(St, storage[k]))
             => /\ cacheCall'.ret = NullValue
                /\ ~memoryCache'[k].present
                /\ ~storage'[k].present]_vars

\* C27: from a set(k, v) whose persistent write failed until the record
\* expires or is deleted (or the cache cleared), get(k) returns v, whether
\* or not the persistent store can be read.
C27_FailedWriteStillServed ==
    \A k \in CacheKeys :
        (/\ cacheHist[k].state = "set"
         /\ ~cacheHist[k].persisted
         /\ now - cacheHist[k].timestamp <= cacheHist[k].ttl)
           => \A readOk \in BOOLEAN : cacheGetValue(St, k, readOk) = cacheHist[k].value

\* a get, one tick after a set whose write failed, returned the new value
\* while the persistent tier still holds the older one
C27_Witness ==
    \E k \in CacheKeys :
        /\ cacheHist[k].state = "set" /\ ~cacheHist[k].persisted
        /\ now > cacheHist[k].timestamp
        /\ cacheCall.op = "get" /\ cacheCall.key = k
        /\ cacheCall.ret = cacheHist[k].value
        /\ storage[k].present /\ storage[k].value # cacheHist[k].value

C23_CachedResultServed ==
    [][\A title \in Titles, readOk, deleteOk \in BOOLEAN :
          (/\ QueryByTitle(title, readOk, deleteOk)
           /\ svcHist[title].state = "success"
           /\ now - svcHist[title].at <= TtlTicks)
             => /\ svcCall'.ret = svcHist[title].value
                /\ ~svcCall'.external
                /\ inflight' = inflight]_vars

\* a later queryByTitle("t1") returned the Result of the earlier call from
\* the cache, one tick after that call returned
C23_Witness ==
    /\ svcHist["t1"].state = "success"
    /\ now > svcHist["t1"].at
    /\ svcCall = [ret |-> svcHist["t1"].value, external |-> FALSE]
    /\ inflight = {}

C28_OtherEntriesStillAdded ==
    (scanned /\ currentAdapter # "none")
       => \A i \in 1..pageSize : i \notin malformed => i \in DOMAIN processedPapers

\* the entries of the catalog file that share the abbreviation key k
SharingAbbr(k) == {i \in DOMAIN catalogData : normalizeKey(catalogData[i].abbr) = k}

\* among them the one of highest rank, the first loaded of these
BestOf(k) ==
    CHOOSE i \in SharingAbbr(k) :
        \A j \in SharingAbbr(k) :
            \/ rankScore[catalogData[i].rank] > rankScore[catalogData[j].rank]
            \/ /\ catalogData[i].rank = catalogData[j].rank
               /\ i <= j

\* C29: for every abbreviation of the catalog file, whatever the order of
\* the file, findByKey(abbreviation) is the entry of highest rank among
\* those that share it, and the first loaded among those of that rank.
C29_FindByKeyHighestRankFirst ==
    Constructed
       => \A i \in DOMAIN catalogData :
             findByKey(St, catalogData[i].abbr) = BestOf(normalizeKey(catalogData[i].abbr))

\* three entries share "TAC": a B entry first, then two A entries;
\* findByKey("TAC") returned the second entry of the file
C29_Witness ==
    /\ Len(catalogData) = 3
    /\ \A i \in 1..3 : catalogData[i].abbr = "TAC"
    /\ catalogData[1].rank = "B" /\ catalogData[2].rank = "A" /\ catalogData[3].rank = "A"
    /\ findCall = [op |-> "findByKey", key |-> "TAC", ret |-> 2]

\* C30: after construction the lookup index holds, under every
\* abbreviation key of the primary map, the entry the primary map holds.
C30_AbbrKeyResolvesToPrimary ==
    Constructed
       => \A k \in NormalKeys : entries[k] # 0 => lookupIndex[k] = entries[k]

\* the key "fse" was registered as the full name of the first entry and
\* the key "tac" as its alias before the entries with these abbreviations
\* were loaded; the index resolves both keys to the later entries
C30_Witness ==
    /\ Constructed
    /\ Len(catalogData) = 3
    /\ catalogData[1].name = "FSE" /\ catalogData[1].abbr = "TAC"
    /\ catalogData[2].name = "Theory" /\ catalogData[2].abbr = "fse "
    /\ catalogData[3].abbr = "TAC" /\ catalogData[3].rank = "A"
    /\ catalogData[1].rank = "B"
    /\ lookupIndex["fse"] = 2
    /\ lookupIndex["tac"] = 3

\* the keys of entry i other than its abbreviation: full name and aliases
OtherKeys(i) ==
    {catalogData[i].name} \cup {catalogData[i].aliases[n] : n \in DOMAIN catalogData[i].aliases}

IsPrimary(i) == entries[normalizeKey(catalogData[i].abbr)] = i

\* the first entry of the file that carries the key k as name or alias
FirstWith(k) ==
    CHOOSE j \in DOMAIN catalogData :
        /\ \E key \in OtherKeys(j) : normalizeKey(key) = k
        /\ \A h \in 1..(j - 1) : \A key \in OtherKeys(h) : normalizeKey(key) # k

C32_CleanIdempotent ==
    matcherCall.op = "cleanVenue" => cleanVenue(matcherCall.ret) = matcherCall.ret

\* C33: match on a non-empty venue returns the entry of the first strategy
\* that finds one, in the order exact, cleaned, partial, acronym, with the
\* confidence naming that strategy; with no strategy succeeding it reports
\* no match.
C33_FirstSuccessfulStrategy ==
    (matcherCall.op = "match" /\ venue # NullInput /\ trim(venue) # <<>>) =>
        LET found == <<exactEntry(venue), cleanedEntry(venue),
                       partialEntry(venue), acronymEntry(venue)>>
            names == <<"exact", "cleaned", "partial", "acronym">>
            hits == {n \in 1..4 : found[n] # NoEntryFound}
            r == matcherCall.ret
        IN  IF hits = {}
            THEN ~r.matched /\ r.entry = NoEntryFound /\ r.confidence = "none"
            ELSE LET first == CHOOSE n \in hits : \A m \in hits : n <= m
                 IN  r.matched /\ r.entry = found[first] /\ r.confidence = names[first]

\* a venue that the cleaned strategy resolves to one entry while the partial
\* strategy would resolve it to another
C33_Witness ==
    /\ matcherCall.op = "match"
    /\ matcherCall.ret.confidence = "cleaned"
    /\ partialEntry(venue) # NoEntryFound
    /\ partialEntry(venue) # matcherCall.ret.entry

\* C34: for a null, empty or whitespace-only venue match returns
\* matched = false, entry = null and confidence "none" and runs no strategy.
C34_EmptyVenueNoStrategy ==
    (matcherCall.op = "match" /\ (venue = NullInput \/ trim(venue) = <<>>)) =>
        /\ ~matcherCall.ret.matched
        /\ matcherCall.ret.entry = NoEntryFound
        /\ matcherCall.ret.confidence = "none"
        /\ matcherCall.ret.lookups = <<>>

\* match has returned for a venue made of blanks only
C34_Witness ==
    /\ matcherCall.op = "match"
    /\ venue # NullInput
    /\ Len(venue) >= 2
    /\ trim(venue) = <<>>

\* C35: the active count of the queue equals the number of tasks started
\* and not yet completed: it is never negative, clearQueue leaves it as it
\* is, and it is 0 when every started task has completed.
C35_ActiveCountIsRunning ==
    /\ dblpActiveCount = Cardinality(running)
    /\ dblpActiveCount >= 0
    /\ clearQueue(St).dblpActiveCount = dblpActiveCount
    /\ clearQueue(St).running = running
    /\ (running = {} => dblpActiveCount = 0)

\* the queue was cleared while started tasks were still running
C35_Witness ==
    /\ processingEpoch > 0
    /\ \E t \in running : t.epochAtStart # processingEpoch
    /\ dblpActiveCount = Cardinality(running)

\* the lookup tasks of the current epoch that are queued or running
CurrentTasks ==
    {dblpQueue[k] : k \in 1..Len(dblpQueue)}
       \cup {[tid |-> t.tid, id |-> t.id, epochAtEnqueue |-> t.epochAtEnqueue] :
                t \in {r \in running : r.epochAtEnqueue = processingEpoch}}

\* C36: while a lookup task enqueued under the current epoch for an entry
\* is queued or running, isInFlight of that entry is true, also after a
\* stale task for the same entry has completed.
C36_CurrentTaskInFlight ==
    \A t \in CurrentTasks :
        t.epochAtEnqueue = processingEpoch => isInFlight(St, t.id)

\* C39: after the Clear Cache menu command a queryByTitle(t) for a title
\* whose Result was cached earlier in the page session performs a new
\* external call: no Result cached before the command is served from the
\* memory tier of the cache.
C39_MenuClearForcesNewCall ==
    [][\A title \in Titles, readOk, deleteOk \in BOOLEAN :
          (/\ QueryByTitle(title, readOk, deleteOk)
           /\ svcHist[title].state = "menuCleared")
             => svcCall'.external]_vars

\* C37: each entry has at most one mounted badge in the page at any time,
\* whatever the sequence of page scans, cleanups and tracker resets.
C37_AtMostOneBadge ==
    \A i \in Ids :
        /\ badgeElements[i] <= 1
        /\ (i \in DOMAIN mountedBadges <=> badgeElements[i] = 1)

\* an entry carries a badge that was mounted again after a cleanup
C37_Witness ==
    /\ processingEpoch > 0
    /\ appMounted
    /\ \E i \in Ids : i \in DOMAIN mountedBadges /\ badgeElements[i] = 1

\* C38: after a change of the rank-display settings (cleanup, reset(true),
\* processPapers) every entry of the page whose rank is enabled has exactly
\* one mounted badge and is marked processed, and every entry whose rank is
\* disabled has no badge.
C38_SettingsChangeRemounts ==
    [][showRanks' # showRanks =>
         \A i \in 1..pageSize :
            /\ i \in DOMAIN processedPapers'
            /\ LET rank == processedPapers'[i].matchResult.rank
                    enabled == IF rank = NoRank THEN showRanks'["unknown"]
                               ELSE showRanks'[rank]
                IN  IF enabled
                    THEN /\ i \in DOMAIN mountedBadges'
                         /\ badgeElements'[i] = 1
                         /\ processedPapers'[i].processed
                         /\ i \in processedElements'
                         /\ i \in domMarker'
                    ELSE /\ i \notin DOMAIN mountedBadges'
                         /\ badgeElements'[i] = 0]_vars

\* rank A was switched off: the entry of rank A has no badge while an
\* entry without rank has one
C38_Witness ==
    /\ processingEpoch > 0
    /\ appMounted
    /\ ~showRanks["A"]
    /\ 1 \in DOMAIN processedPapers
    /\ processedPapers[1].matchResult.rank = "A"
    /\ badgeElements[1] = 0
    /\ \E i \in Ids : badgeElements[i] = 1 /\ processedPapers[i].processed

\* C40: after an enrichment has changed the matchResult of an entry, the
\* displayed statistics are eventually refreshed to equal getStatistics(),
\* also when several enrichments complete before the coalesced UI update
\* runs, unless a cleanup intervenes.
C40_StatsEventuallyRefreshed ==
    \A e \in 0..MaxEpoch :
        (processingEpoch = e /\ appMounted /\ shownStats # getStatistics(St))
            ~> (shownStats = getStatistics(St) \/ processingEpoch # e)

\* two enrichments have completed and the coalesced update has not yet run
C40_Witness ==
    /\ pendingUiUpdate
    /\ appMounted
    /\ getStatistics(St).byRank.A >= shownStats.byRank.A + 2

====
